---- MODULE Spec2Model ----
(***************************************************************************)
(* Forest relevance engine: node/edge storage, hybrid scoring,             *)
(* classification, the auto-linking pass and the embedding service.        *)
(*                                                                         *)
(* Conventions.                                                            *)
(*  - A Rust String is a sequence of one-character strings; a character    *)
(*    outside ASCII is written as its code point, "U+3000".                *)
(*  - Option<T> is a sequence of length 0 (None) or 1 (Some(x)).           *)
(*  - An f64 in [0,1] is a fixed-point integer: components in units of     *)
(*    1/Scale, the final score in units of 1/ScoreUnit.  Rounding is by    *)
(*    floor, so values are approximations of the f64 results; 0 and 1 are  *)
(*    exact.                                                               *)
(***************************************************************************)
EXTENDS Integers, Sequences, FiniteSets, TLC

None == <<>>
Some(x) == <<x>>
is_some(o) == o # <<>>
unwrap(o) == o[1]

\* Result<T>: Ok(value) or Err(message)
Ok(x) == [ok |-> TRUE, val |-> x]
Err(e) == [ok |-> FALSE, val |-> e]

Min(a, b) == IF a <= b THEN a ELSE b
Max(a, b) == IF a >= b THEN a ELSE b

(***************************************************************************)
(* Characters and strings                                                  *)
(***************************************************************************)
UPPER == <<"A","B","C","D","E","F","G","H","I","J","K","L","M",
           "N","O","P","Q","R","S","T","U","V","W","X","Y","Z">>
LOWER == <<"a","b","c","d","e","f","g","h","i","j","k","l","m",
           "n","o","p","q","r","s","t","u","v","w","x","y","z">>
DIGITS == <<"0","1","2","3","4","5","6","7","8","9">>
\* char::is_whitespace: the White_Space characters of the model
WHITESPACE == {" ", "\n", "\t", "\r", "U+00A0", "U+3000"}

\* The ASCII characters of the model in byte order.
ASCII_ORDER == <<"\t", "\n", " ", "#", "-">> \o DIGITS \o UPPER \o <<"_">> \o LOWER

Range(s) == {s[i] : i \in DOMAIN s}

byte_rank(c) == CHOOSE i \in DOMAIN ASCII_ORDER : ASCII_ORDER[i] = c

\* &str comparison a < b: lexicographic on bytes, a proper prefix is smaller.
RECURSIVE str_lt(_, _)
str_lt(a, b) ==
    IF b = <<>> THEN FALSE
    ELSE IF a = <<>> THEN TRUE
    ELSE IF a[1] = b[1] THEN str_lt(Tail(a), Tail(b))
    ELSE byte_rank(a[1]) < byte_rank(b[1])

is_alphanumeric(c) == c \in Range(UPPER) \cup Range(LOWER) \cup Range(DIGITS)
is_whitespace(c) == c \in WHITESPACE

char_to_lowercase(c) ==
    IF c \in Range(UPPER) THEN LOWER[CHOOSE i \in DOMAIN UPPER : UPPER[i] = c] ELSE c

to_lowercase(s) == [i \in DOMAIN s |-> char_to_lowercase(s[i])]

RECURSIVE split_ws(_, _, _)
split_ws(s, i, cur) ==
    IF i > Len(s) THEN (IF cur = <<>> THEN <<>> ELSE <<cur>>)
    ELSE IF is_whitespace(s[i])
         THEN (IF cur = <<>> THEN <<>> ELSE <<cur>>) \o split_ws(s, i + 1, <<>>)
         ELSE split_ws(s, i + 1, Append(cur, s[i]))

split_whitespace(s) == split_ws(s, 1, <<>>)

ends_with(t, suf) ==
    /\ Len(t) >= Len(suf)
    /\ SubSeq(t, Len(t) - Len(suf) + 1, Len(t)) = suf

drop_last(t, n) == SubSeq(t, 1, Len(t) - n)

STOPWORDS == {
    <<"a">>, <<"a","n">>, <<"a","n","d">>, <<"a","r","e">>, <<"a","s">>, <<"a","t">>,
    <<"b","e">>, <<"b","u","t">>, <<"b","y">>, <<"f","o","r">>, <<"i","f">>, <<"i","n">>,
    <<"i","n","t","o">>, <<"i","s">>, <<"i","t">>, <<"n","o">>, <<"n","o","t">>, <<"o","f">>,
    <<"o","n">>, <<"o","r">>, <<"s","u","c","h">>, <<"t","h","a","t">>, <<"t","h","e">>,
    <<"t","h","e","i","r">>, <<"t","h","e","n">>, <<"t","h","e","r","e">>,
    <<"t","h","e","s","e">>, <<"t","h","e","y">>, <<"t","h","i","s">>, <<"t","o">>,
    <<"w","a","s">>, <<"w","i","l","l">>, <<"w","i","t","h">>, <<"w","e">>, <<"y","o","u">>,
    <<"i">>, <<"c","a","n">>, <<"c","o","u","l","d">>, <<"s","h","o","u","l","d">>,
    <<"w","o","u","l","d">>, <<"m","a","y">>, <<"m","i","g","h","t">>, <<"m","u","s","t">>,
    <<"a","l","s","o">>, <<"v","e","r","y">>, <<"m","u","c","h">>, <<"m","o","r","e">>,
    <<"m","o","s","t">>, <<"m","a","n","y">>, <<"f","e","w">>, <<"s","e","v","e","r","a","l">>,
    <<"o","f","t","e","n">>, <<"u","s","u","a","l","l","y">>,
    <<"s","o","m","e","t","i","m","e","s">>, <<"g","e","n","e","r","a","l","l","y">>,
    <<"f","r","o","m">>, <<"a","f","t","e","r">>, <<"b","e","f","o","r","e">>,
    <<"b","e","t","w","e","e","n">>, <<"a","c","r","o","s","s">>, <<"a","l","o","n","g">>,
    <<"w","i","t","h","i","n">>, <<"w","i","t","h","o","u","t">>, <<"v","i","a">>,
    <<"p","e","r">>, <<"b","e","c","a","u","s","e">>, <<"h","o","w","e","v","e","r">>,
    <<"t","h","e","r","e","f","o","r","e">>, <<"t","h","u","s">>, <<"e","n","s","u","r","e">>,
    <<"i","n","c","l","u","d","e">>, <<"i","n","c","l","u","d","i","n","g">>,
    <<"i","n","c","l","u","d","e","s">>, <<"u","s","i","n","g">>, <<"u","s","e">>,
    <<"u","s","e","d">>, <<"b","a","s","e","d">>, <<"m","a","k","e">>, <<"m","a","d","e">>,
    <<"m","a","k","e","s">>, <<"p","r","o","v","i","d","e">>,
    <<"p","r","o","v","i","d","e","s">>, <<"p","r","o","v","i","d","e","d">>,
    <<"c","r","e","a","t","e">>, <<"c","r","e","a","t","e","s">>,
    <<"c","r","e","a","t","e","d">>, <<"s","y","s","t","e","m">>,
    <<"s","y","s","t","e","m","s">>, <<"p","r","o","c","e","s","s">>,
    <<"p","r","o","c","e","s","s","e","s">>, <<"s","t","r","u","c","t","u","r","e">>,
    <<"p","a","t","t","e","r","n">>, <<"p","a","t","t","e","r","n","s">>,
    <<"i","n","t","e","r","f","a","c","e">>, <<"m","e","t","h","o","d">>,
    <<"m","e","t","h","o","d","s">>, <<"a","p","p","r","o","a","c","h">>,
    <<"a","p","p","r","o","a","c","h","e","s">>, <<"w","a","y">>, <<"w","a","y","s">>
}

\* Generic technical terms weighted 0.4 in the token cosine (weights in tenths).
TOKEN_DOWNWEIGHT == {
    <<"f","l","o","w">>, <<"f","l","o","w","s">>,
    <<"s","t","r","e","a","m">>, <<"s","t","r","e","a","m","s">>,
    <<"p","i","p","e">>, <<"p","i","p","e","s">>,
    <<"b","r","a","n","c","h">>, <<"b","r","a","n","c","h","e","s">>,
    <<"t","e","r","m","i","n","a","l">>, <<"t","e","r","m","i","n","a","l","s">> }

\* the stemmer with the plural -s rule tried first
normalize_token_s_first(token) ==
    IF Len(token) <= 3 THEN token
    ELSE IF /\ ends_with(token, <<"s">>)
            /\ Len(token) > 4
            /\ SubSeq(token, Len(token) - 1, Len(token))
                  \notin {<<"s","s">>, <<"u","s">>, <<"i","s">>}
         THEN drop_last(token, 1)
    ELSE IF ends_with(token, <<"i","e","s">>) /\ Len(token) > 4
         THEN Append(drop_last(token, 3), "y")
    ELSE IF ends_with(token, <<"s","s","e","s">>) THEN drop_last(token, 2)
    ELSE IF \/ ends_with(token, <<"c","h","e","s">>)
            \/ ends_with(token, <<"s","h","e","s">>)
            \/ ends_with(token, <<"x","e","s">>)
            \/ ends_with(token, <<"z","e","s">>)
         THEN drop_last(token, 2)
    ELSE IF ends_with(token, <<"i","n","g">>) /\ Len(token) > 5 THEN drop_last(token, 3)
    ELSE IF ends_with(token, <<"e","d">>) /\ Len(token) > 4 THEN drop_last(token, 2)
    ELSE token

normalize_token(token) ==
    IF Len(token) <= 3 THEN token
    ELSE IF ends_with(token, <<"i","e","s">>) /\ Len(token) > 4
         THEN Append(drop_last(token, 3), "y")
    ELSE IF ends_with(token, <<"s","s","e","s">>) THEN drop_last(token, 2)
    ELSE IF \/ ends_with(token, <<"c","h","e","s">>)
            \/ ends_with(token, <<"s","h","e","s">>)
            \/ ends_with(token, <<"x","e","s">>)
            \/ ends_with(token, <<"z","e","s">>)
         THEN drop_last(token, 2)
    ELSE IF ends_with(token, <<"i","n","g">>) /\ Len(token) > 5 THEN drop_last(token, 3)
    ELSE IF ends_with(token, <<"e","d">>) /\ Len(token) > 4 THEN drop_last(token, 2)
    ELSE IF /\ ends_with(token, <<"s">>)
            /\ Len(token) > 4
            /\ SubSeq(token, Len(token) - 1, Len(token))
                  \notin {<<"s","s">>, <<"u","s">>, <<"i","s">>}
         THEN drop_last(token, 1)
    ELSE token

RECURSIVE filter_map_tokens(_)
filter_map_tokens(ts) ==
    IF ts = <<>> THEN <<>>
    ELSE IF Len(ts[1]) >= 2 /\ ts[1] \notin STOPWORDS
         THEN <<normalize_token(ts[1])>> \o filter_map_tokens(Tail(ts))
         ELSE filter_map_tokens(Tail(ts))

tokens_from_title(title) ==
    LET lowered == to_lowercase(title)
        normalized == [i \in DOMAIN lowered |->
                          IF is_alphanumeric(lowered[i]) \/ is_whitespace(lowered[i])
                          THEN lowered[i] ELSE " "]
    IN filter_map_tokens(split_whitespace(normalized))

(***************************************************************************)
(* Fixed-point arithmetic                                                  *)
(***************************************************************************)
Scale == 1000
ScoreUnit == Scale * Scale

RECURSIVE isqrt_bs(_, _, _)
isqrt_bs(n, lo, hi) ==
    IF lo >= hi THEN lo
    ELSE LET mid == (lo + hi + 1) \div 2
         IN IF mid * mid <= n THEN isqrt_bs(n, mid, hi) ELSE isqrt_bs(n, lo, mid - 1)

\* floor(sqrt(n))
ISqrt(n) == isqrt_bs(n, 0, Min(n, 46340))

\* floor(Scale * sqrt(num / den)) for 0 <= num, 0 < den
sqrt_ratio(num, den) == ISqrt(((num * Scale) \div den) * Scale)

\* dot / (sqrt(mag_a) * sqrt(mag_b)) in units of 1/Scale, keeping the sign of dot
cosine_of(dot, mag_a, mag_b) ==
    IF dot >= 0 THEN sqrt_ratio(dot * dot, mag_a * mag_b)
    ELSE 0 - sqrt_ratio(dot * dot, mag_a * mag_b)

\* x.powf(1.25) for x in units of 1/Scale: x * sqrt(sqrt(x))
powf_1_25(x) == (x * ISqrt(Scale * ISqrt(Scale * x))) \div Scale

RECURSIVE SumOver(_, _)
SumOver(S, f) ==
    IF S = {} THEN 0
    ELSE LET x == CHOOSE y \in S : TRUE IN f[x] + SumOver(S \ {x}, f)

(***************************************************************************)
(* Scoring engine (core/scoring.rs)                                        *)
(***************************************************************************)

\* An environment variable: unset, set to text that does not parse as f64,
\* or set to a number (kept in units of 1/ScoreUnit).
EnvUnset == [kind |-> "unset", num |-> 0]
EnvInvalid == [kind |-> "invalid", num |-> 0]
EnvNum(n) == [kind |-> "num", num |-> n]

\* std::env::var(..).ok().and_then(|s| s.parse::<f64>().ok())
env_parse_f64(v) == IF v.kind = "num" THEN Some(v.num) ELSE None

DEFAULT_AUTO_ACCEPT == ScoreUnit \div 2
DEFAULT_SUGGESTION == ScoreUnit \div 4

get_auto_accept_threshold(environ) ==
    LET p == env_parse_f64(environ.FOREST_AUTO_ACCEPT)
    IN IF is_some(p) THEN unwrap(p) ELSE DEFAULT_AUTO_ACCEPT

get_suggestion_threshold(environ) ==
    LET p == env_parse_f64(environ.FOREST_SUGGESTION_THRESHOLD)
    IN IF is_some(p) THEN unwrap(p) ELSE DEFAULT_SUGGESTION

\* jaccard without the early return for two empty sets, 0/0 read as 1
jaccard_empty_is_one(a, b) ==
    LET set_a == Range(a)
        set_b == Range(b)
        intersection == Cardinality({t \in set_b : t \in set_a})
        union == Cardinality(set_a) + Cardinality({t \in set_b : t \notin set_a})
    IN IF union = 0 THEN Scale ELSE (intersection * Scale) \div union

jaccard(a, b) ==
    IF a = <<>> /\ b = <<>> THEN 0
    ELSE LET set_a == Range(a)
             set_b == Range(b)
             intersection == Cardinality({t \in set_b : t \in set_a})
             union == Cardinality(set_a) + Cardinality({t \in set_b : t \notin set_a})
         IN IF union = 0 THEN 0 ELSE (intersection * Scale) \div union

\* Token weight in tenths: 0.4 for the generic terms, 1.0 otherwise.
token_downweight(key) == IF key \in TOKEN_DOWNWEIGHT THEN 4 ELSE 10

\* Weighted cosine over the union of the two token-count maps.
cosine_similarity(a, b) ==
    LET keys == DOMAIN a \cup DOMAIN b
        val_a == [k \in keys |-> (IF k \in DOMAIN a THEN a[k] ELSE 0) * token_downweight(k)]
        val_b == [k \in keys |-> (IF k \in DOMAIN b THEN b[k] ELSE 0) * token_downweight(k)]
        dot == SumOver(keys, [k \in keys |-> val_a[k] * val_b[k]])
        mag_a == SumOver(keys, [k \in keys |-> val_a[k] * val_a[k]])
        mag_b == SumOver(keys, [k \in keys |-> val_b[k] * val_b[k]])
    IN IF keys = {} THEN 0
       ELSE IF mag_a = 0 \/ mag_b = 0 THEN 0
       ELSE cosine_of(dot, mag_a, mag_b)

\* overlap / (sqrt(len_a) * sqrt(len_b)) of two title token lists
title_overlap(tokens_a, tokens_b) ==
    LET overlap == Cardinality({i \in DOMAIN tokens_a : tokens_a[i] \in Range(tokens_b)})
    IN IF tokens_a = <<>> \/ tokens_b = <<>> THEN 0
       ELSE sqrt_ratio(overlap * overlap, Len(tokens_a) * Len(tokens_b))

title_cosine(a, b) == title_overlap(tokens_from_title(a), tokens_from_title(b))

\* cosine_embeddings over the longer length, a missing component read as 0
cosine_embeddings_padded(a, b) ==
    IF is_some(a) /\ is_some(b) /\ unwrap(a) # <<>> /\ unwrap(b) # <<>>
    THEN LET vec_a == unwrap(a)
             vec_b == unwrap(b)
             idx == 1..Max(Len(vec_a), Len(vec_b))
             x == [i \in idx |-> IF i <= Len(vec_a) THEN vec_a[i] ELSE 0]
             y == [i \in idx |-> IF i <= Len(vec_b) THEN vec_b[i] ELSE 0]
             dot == SumOver(idx, [i \in idx |-> x[i] * y[i]])
             mag_a == SumOver(idx, [i \in idx |-> x[i] * x[i]])
             mag_b == SumOver(idx, [i \in idx |-> y[i] * y[i]])
         IN IF mag_a = 0 \/ mag_b = 0 THEN 0 ELSE cosine_of(dot, mag_a, mag_b)
    ELSE 0

\* a, b : Option<vector>; vector components are integers (the ratio is scale-free).
cosine_embeddings(a, b) ==
    IF is_some(a) /\ is_some(b) /\ unwrap(a) # <<>> /\ unwrap(b) # <<>>
    THEN LET vec_a == unwrap(a)
             vec_b == unwrap(b)
             dim == Min(Len(vec_a), Len(vec_b))
             idx == 1..dim
             dot == SumOver(idx, [i \in idx |-> vec_a[i] * vec_b[i]])
             mag_a == SumOver(idx, [i \in idx |-> vec_a[i] * vec_a[i]])
             mag_b == SumOver(idx, [i \in idx |-> vec_b[i] * vec_b[i]])
         IN IF mag_a = 0 \/ mag_b = 0 THEN 0 ELSE cosine_of(dot, mag_a, mag_b)
    ELSE 0

PENALTY_ZERO_OVERLAP == (9 * Scale) \div 10

\* score_result with || in place of && in the penalty's condition
score_result_penalty_or(tag_overlap, token_similarity, title_similarity, embedding_similarity) ==
    LET weighted == 25 * token_similarity + 55 * embedding_similarity
                    + 15 * tag_overlap + 5 * title_similarity
        penalty == IF tag_overlap = 0 \/ title_similarity = 0
                   THEN PENALTY_ZERO_OVERLAP ELSE Scale
    IN [score |-> (weighted * penalty) \div 100,
        components |-> [tag_overlap |-> tag_overlap,
                        token_similarity |-> token_similarity,
                        title_similarity |-> title_similarity,
                        embedding_similarity |-> embedding_similarity,
                        penalty |-> penalty]]

\* The weighted sum, the zero-overlap penalty and the ScoreResult.
score_result(tag_overlap, token_similarity, title_similarity, embedding_similarity) ==
    LET weighted == 25 * token_similarity + 55 * embedding_similarity
                    + 15 * tag_overlap + 5 * title_similarity
        penalty == IF tag_overlap = 0 /\ title_similarity = 0
                   THEN PENALTY_ZERO_OVERLAP ELSE Scale
    IN [score |-> (weighted * penalty) \div 100,
        components |-> [tag_overlap |-> tag_overlap,
                        token_similarity |-> token_similarity,
                        title_similarity |-> title_similarity,
                        embedding_similarity |-> embedding_similarity,
                        penalty |-> penalty]]

compute_score(a, b) ==
    score_result(jaccard(a.tags, b.tags),
                 cosine_similarity(a.token_counts, b.token_counts),
                 title_cosine(a.title, b.title),
                 powf_1_25(Max(cosine_embeddings(a.embedding, b.embedding), 0)))

classify_score_gt(score, environ) ==
    IF score > get_auto_accept_threshold(environ) THEN "Accepted"
    ELSE IF score > get_suggestion_threshold(environ) THEN "Suggested"
    ELSE "Discard"

classify_score(score, environ) ==
    IF score >= get_auto_accept_threshold(environ) THEN "Accepted"
    ELSE IF score >= get_suggestion_threshold(environ) THEN "Suggested"
    ELSE "Discard"

classification_to_status_all(classification) ==
    IF classification = "Accepted" THEN Some("accepted") ELSE Some("suggested")

classification_to_status(classification) ==
    CASE classification = "Accepted" -> Some("accepted")
      [] classification = "Suggested" -> Some("suggested")
      [] classification = "Discard" -> None

normalize_edge_pair_unordered(a, b) == <<a, b>>

normalize_edge_pair(a, b) == IF str_lt(a, b) THEN <<a, b>> ELSE <<b, a>>

(***************************************************************************)
(* Node records (db/types.rs NodeRecord): the fields that scoring and      *)
(* linking read.  Token-count keys are outputs of the tokenizer.           *)
(***************************************************************************)
W_rust == <<"r","u","s","t">>
W_programming == <<"p","r","o","g","r","a","m","m","i","n","g">>
W_programm == <<"p","r","o","g","r","a","m","m">>
W_language == <<"l","a","n","g","u","a","g","e">>
W_memory == <<"m","e","m","o","r","y">>
W_safety == <<"s","a","f","e","t","y">>
W_notes == <<"n","o","t","e","s">>

NodeA ==
    [id |-> <<"1","a">>,
     title |-> <<"R","u","s","t"," ","P","r","o","g","r","a","m","m","i","n","g">>,
     tags |-> <<W_rust, W_programming>>,
     token_counts |-> (W_rust :> 2) @@ (W_programm :> 1) @@ (W_language :> 1),
     embedding |-> Some(<<8, 6, 0>>)]

NodeB ==
    [id |-> <<"0","c">>,
     title |-> <<"M","e","m","o","r","y"," ","S","a","f","e","t","y"," ","i","n"," ","R","u","s","t">>,
     tags |-> <<W_rust, W_memory>>,
     token_counts |-> (W_rust :> 1) @@ (W_memory :> 1) @@ (W_safety :> 1),
     embedding |-> Some(<<8, 6, 1>>)]

NodeC ==
    [id |-> <<"7","f">>,
     title |-> <<"R","u","s","t"," ","N","o","t","e","s">>,
     tags |-> <<W_rust>>,
     token_counts |-> (W_rust :> 1),
     embedding |-> None]

\* The notes a caller may capture.
NodePool == {NodeA, NodeB, NodeC}

\* A note with no tag and an embedding of another length than NodeA's
NodeD ==
    [id |-> <<"2","b">>,
     title |-> <<"R","u","s","t"," ","N","o","t","e","s">>,
     tags |-> <<>>,
     token_counts |-> (W_rust :> 1) @@ (W_notes :> 2),
     embedding |-> Some(<<6, 8>>)]

\* A note that shares no tag and no title token with the others, only a
\* token; its embedding is the zero vector
NodeE ==
    [id |-> <<"3","d">>,
     title |-> <<"T","h","e"," ","G","a","r","d","e","n">>,
     tags |-> << <<"g","a","r","d","e","n">> >>,
     token_counts |-> (W_rust :> 1) @@ (<<"g","a","r","d","e","n">> :> 3),
     embedding |-> Some(<<0, 0, 0>>)]

\* A note whose title repeats a token
NodeF ==
    [id |-> <<"4","e">>,
     title |-> <<"R","u","s","t"," ","R","u","s","t"," ","N","o","t","e","s">>,
     tags |-> <<W_rust>>,
     token_counts |-> (W_rust :> 2) @@ (<<"n","o","t","e">> :> 1),
     embedding |-> None]

\* A run of `count` stored notes that share no tag, token, title token or
\* embedding with any other note: compute_score against them is 0.
UnrelatedNode ==
    [id |-> <<"b","u","l","k">>, title |-> <<>>, tags |-> <<>>,
     token_counts |-> <<>>, embedding |-> None]

\* The notes compute_score is called on
ScorePool == NodePool \cup {UnrelatedNode, NodeD, NodeE, NodeF}

\* compute_score is pure: its values for the notes of the model, computed once.
ScoreMemo ==
    [a \in ScorePool, b \in ScorePool |-> compute_score(a, b)]

compute_score_of(a, b) == ScoreMemo[a, b]

(***************************************************************************)
(* Bounds                                                                  *)
(***************************************************************************)
MaxNodes == 3
MaxBulk == 1
BulkSize == 10000

(***************************************************************************)
(* Storage (db/nodes.rs, db/edges.rs)                                      *)
(*                                                                         *)
(* nodes: the rows of table nodes in the order ORDER BY updated_at DESC,   *)
(*        run-length encoded: a row [count, node] stands for `count`       *)
(*        consecutive notes (count > 1 only for UnrelatedNode).            *)
(* edges: the rows of table edges.                                         *)
(***************************************************************************)
VARIABLES
    environ,    \* FOREST_AUTO_ACCEPT and FOREST_SUGGESTION_THRESHOLD of the process
    nodes,      \* table nodes, most recently updated first, run-length encoded
    edges,      \* table edges: a set of rows
    used_ids,   \* node ids generated so far
    lk,         \* the frame of the auto_link_node call in flight
    hist,       \* observer of repeated auto_link_node runs
    probe,      \* the last call of a pure function and its result
    embed_env,  \* FOREST_EMBED_PROVIDER and OPENAI_API_KEY of the process
    ctor,       \* observer of the first access to EMBEDDING_SERVICE
    provider,   \* EmbeddingService.provider ("Uninit" before the first access)
    openai,     \* EmbeddingService.openai: Option<OpenAIEmbedder>
    local,      \* EmbeddingService.local: the mutex and the Option it guards
    threads,    \* the frame of each thread calling embed_text
    inits,      \* observer: local model initialisations that succeeded / failed
    search      \* the last semantic_search call and what it returned

link_vars == <<environ, nodes, edges, used_ids, lk, hist>>
service_vars == <<embed_env, ctor, provider, openai>>
embed_vars == <<service_vars, local, threads, inits, search>>
vars == <<environ, nodes, edges, used_ids, lk, hist, probe, embed_env, ctor, provider, openai,
          local, threads, inits, search>>

StoredNodes == {nodes[i].node : i \in {j \in DOMAIN nodes : nodes[j].count = 1}}
StoredIds == {n.id : n \in StoredNodes}

RECURSIVE CountRows(_)
CountRows(rows) == IF rows = <<>> THEN 0 ELSE rows[1].count + CountRows(Tail(rows))

RECURSIVE take_rows(_, _)
take_rows(rows, n) ==
    IF rows = <<>> \/ n <= 0 THEN <<>>
    ELSE IF rows[1].count <= n
         THEN <<rows[1]>> \o take_rows(Tail(rows), n - rows[1].count)
         ELSE <<[rows[1] EXCEPT !.count = n]>>

RECURSIVE skip_rows(_, _)
skip_rows(rows, n) ==
    IF rows = <<>> \/ n <= 0 THEN rows
    ELSE IF rows[1].count <= n
         THEN skip_rows(Tail(rows), n - rows[1].count)
         ELSE <<[rows[1] EXCEPT !.count = @ - n]>> \o Tail(rows)

\* SELECT ... FROM nodes ORDER BY updated_at DESC LIMIT ? OFFSET ?
list_nodes(rows, pagination) ==
    take_rows(skip_rows(rows, pagination.offset), pagination.limit)

\* INSERT INTO nodes: the new row has the latest updated_at.
insert_node(rows, node) == <<[count |-> 1, node |-> node]>> \o rows

RECURSIVE remove_node_row(_, _)
remove_node_row(rows, id) ==
    IF rows = <<>> THEN <<>>
    ELSE IF rows[1].count = 1 /\ rows[1].node.id = id
         THEN remove_node_row(Tail(rows), id)
         ELSE <<rows[1]>> \o remove_node_row(Tail(rows), id)

edge_row(pair, edge) ==
    [source_id |-> pair[1], target_id |-> pair[2], score |-> edge.score,
     status |-> edge.status, edge_type |-> edge.edge_type, metadata |-> edge.metadata]

conflicting(E, pair) == {e \in E : e.source_id = pair[1] /\ e.target_id = pair[2]}

\* INSERT without the ON CONFLICT clause
upsert_edge_insert_only(E, edge) ==
    E \cup {edge_row(normalize_edge_pair(edge.source_id, edge.target_id), edge)}

\* an upsert that removes the row it conflicts with
upsert_edge_delete_on_conflict(E, edge) ==
    LET pair == normalize_edge_pair(edge.source_id, edge.target_id)
        old == conflicting(E, pair)
    IN IF old = {} THEN E \cup {edge_row(pair, edge)} ELSE E \ old

\* INSERT INTO edges ... ON CONFLICT(source_id, target_id) DO UPDATE SET
\*   score, status, edge_type, metadata
\* (the row's id and timestamps are not part of the model)
upsert_edge(E, edge) ==
    LET pair == normalize_edge_pair(edge.source_id, edge.target_id)
        old == conflicting(E, pair)
    IN IF old = {} THEN E \cup {edge_row(pair, edge)}
       ELSE (E \ old) \cup {edge_row(pair, edge)}

\* DELETE FROM edges WHERE source_id = ? AND target_id = ?
delete_edge(E, source_id, target_id) ==
    E \ conflicting(E, normalize_edge_pair(source_id, target_id))

\* the UPDATE with score > ? in place of score >= ?
promote_suggestions_above(E, min_score) ==
    {IF e.status = "suggested" /\ e.score > min_score
     THEN [e EXCEPT !.status = "accepted"] ELSE e : e \in E}

\* UPDATE edges SET status = 'accepted' WHERE status = 'suggested' AND score >= ?
promote_suggestions(E, min_score) ==
    {IF e.status = "suggested" /\ e.score >= min_score
     THEN [e EXCEPT !.status = "accepted"] ELSE e : e \in E}

\* DELETE FROM edges WHERE source_id = ? OR target_id = ?
delete_edges_of(E, id) == {e \in E : e.source_id # id /\ e.target_id # id}

(***************************************************************************)
(* Observer of auto_link_node runs.  A sequence of runs for one node       *)
(* during which nothing else wrote to storage is followed: the edge set a  *)
(* run without failure produces from the storage at the start of the       *)
(* sequence, the counts of the last successful run of the sequence, and    *)
(* the number of edges the last failed run of the sequence had written.    *)
(***************************************************************************)
HistNone == [node |-> None, expect |-> {}, prev |-> None, failed |-> None]

(***************************************************************************)
(* Commands of the CLI and the Tauri layer that write to storage.          *)
(* They are taken one at a time, between auto_link_node calls.             *)
(***************************************************************************)
Quiet == lk.pc = "idle"

NodeById(id) == CHOOSE n \in StoredNodes : n.id = id

\* capture / create_node: db.insert_node of a new note
db_insert_node(n) ==
    /\ Quiet
    /\ n.id \notin used_ids
    /\ Cardinality(StoredNodes) < MaxNodes
    /\ nodes' = insert_node(nodes, n)
    /\ used_ids' = used_ids \cup {n.id}
    /\ hist' = HistNone
    /\ UNCHANGED <<environ, edges, lk, probe, embed_vars>>

\* BulkSize unrelated notes are captured (an import).
db_insert_unrelated ==
    /\ Quiet
    /\ Cardinality({i \in DOMAIN nodes : nodes[i].count > 1}) < MaxBulk
    /\ nodes' = <<[count |-> BulkSize, node |-> UnrelatedNode]>> \o nodes
    /\ hist' = HistNone
    /\ UNCHANGED <<environ, edges, used_ids, lk, probe, embed_vars>>

\* `node link id1 id2`: an accepted manual edge with the computed score
handle_link(id1, id2) ==
    /\ Quiet
    /\ id1 \in StoredIds /\ id2 \in StoredIds /\ id1 # id2
    /\ LET pair == normalize_edge_pair(id1, id2)
           edge == [source_id |-> pair[1], target_id |-> pair[2],
                    score |-> compute_score_of(NodeById(id1), NodeById(id2)).score,
                    status |-> "accepted", edge_type |-> "manual", metadata |-> None]
       IN /\ edges' = upsert_edge(edges, edge)
    /\ hist' = HistNone
    /\ UNCHANGED <<environ, nodes, used_ids, lk, probe, embed_vars>>

\* accept_edge(source_id, target_id): the edge found is upserted as accepted
accept_edge(source_id, target_id) ==
    /\ Quiet
    /\ source_id # target_id
    /\ \E e \in edges :
          /\ \/ e.source_id = source_id /\ e.target_id = target_id
             \/ e.source_id = target_id /\ e.target_id = source_id
          /\ e.status # "accepted"
          /\ edges' = upsert_edge(edges,
                                  [source_id |-> e.source_id, target_id |-> e.target_id,
                                   score |-> e.score, status |-> "accepted",
                                   edge_type |-> e.edge_type, metadata |-> e.metadata])
    /\ hist' = HistNone
    /\ UNCHANGED <<environ, nodes, used_ids, lk, probe, embed_vars>>

\* reject_edge / `edges reject`: db.delete_edge
db_delete_edge(a, b) ==
    /\ Quiet
    /\ a # b
    /\ conflicting(edges, normalize_edge_pair(a, b)) # {}
    /\ edges' = delete_edge(edges, a, b)
    /\ hist' = HistNone
    /\ UNCHANGED <<environ, nodes, used_ids, lk, probe, embed_vars>>

PromoteScores == {(3 * ScoreUnit) \div 10}

db_promote_suggestions(min_score) ==
    /\ Quiet
    /\ edges' = promote_suggestions(edges, min_score)
    /\ edges' # edges
    /\ hist' = HistNone
    /\ UNCHANGED <<environ, nodes, used_ids, lk, probe, embed_vars>>

\* delete_node(id): the node's edges, then its row, are deleted.
db_delete_node(id) ==
    /\ Quiet
    /\ id \in StoredIds
    /\ edges' = delete_edges_of(edges, id)
    /\ nodes' = remove_node_row(nodes, id)
    /\ hist' = HistNone
    /\ UNCHANGED <<environ, used_ids, lk, probe, embed_vars>>

(***************************************************************************)
(* Auto-linker (core/linking.rs)                                           *)
(*                                                                         *)
(* lk is the frame of one auto_link_node call: pc, the node passed in,     *)
(* the listing it fetched, the loop index, the two counters, and the       *)
(* NewEdge values it has passed to db.upsert_edge with the INSERT done.    *)
(***************************************************************************)
AUTO_LINK_LIMIT == 10000

LkIdle ==
    [pc |-> "idle", new_node |-> None, all_nodes |-> <<>>, i |-> 0,
     accepted |-> 0, suggested |-> 0, written |-> <<>>]

\* NewEdge { source_id, target_id, score, status, edge_type: Semantic, metadata: None }
new_edge_with(pair, score, status) ==
    IF status = None THEN None
    ELSE Some([source_id |-> pair[1], target_id |-> pair[2], score |-> score,
               status |-> unwrap(status), edge_type |-> "semantic", metadata |-> None])

\* The loop body after the self check: classify, map to a status, build the edge.
scored_edge(new_id, other_id, score, env) ==
    new_edge_with(normalize_edge_pair(new_id, other_id), score,
                  classification_to_status(classify_score(score, env)))

\* The NewEdge the loop body builds for `other`, or None when it continues.
link_edge(new_node, other, env) ==
    IF other.id = new_node.id THEN None
    ELSE scored_edge(new_node.id, other.id, compute_score_of(new_node, other).score, env)

count_accepted_always(acc, status) == acc + 1

count_accepted(acc, status) == IF status = "accepted" THEN acc + 1 ELSE acc

count_suggested(sug, status) == IF status = "suggested" THEN sug + 1 ELSE sug

\* The edges after a run of auto_link_node in which no storage call fails.
apply_edge(E, new_edge) == IF new_edge = None THEN E ELSE upsert_edge(E, unwrap(new_edge))

RECURSIVE auto_link_edges(_, _, _, _)
auto_link_edges(E, rows, new_node, env) ==
    IF rows = <<>> THEN E
    ELSE auto_link_edges(apply_edge(E, link_edge(new_node, rows[1].node, env)),
                         Tail(rows), new_node, env)

hist_start(h, n) ==
    IF h.node = Some(n.id) THEN h
    ELSE [node |-> Some(n.id),
          expect |-> auto_link_edges(edges,
                        list_nodes(nodes, [limit |-> AUTO_LINK_LIMIT, offset |-> 0]),
                        n, environ),
          prev |-> None, failed |-> None]

hist_fail(h, id, written) ==
    IF h.node = Some(id) THEN [h EXCEPT !.failed = Some(written)] ELSE h

\* let all_nodes = db.list_nodes(Pagination { limit: 10000, offset: 0 }).await?
auto_link_node_list(n) ==
    /\ lk.pc = "idle"
    /\ n \in StoredNodes
    /\ lk' = [LkIdle EXCEPT !.pc = "loop", !.new_node = Some(n), !.i = 1,
                !.all_nodes = list_nodes(nodes, [limit |-> AUTO_LINK_LIMIT, offset |-> 0])]
    /\ hist' = hist_start(hist, n)
    /\ UNCHANGED <<environ, nodes, edges, used_ids, probe, embed_vars>>

\* list_nodes fails: the error is returned before any node is scored.
auto_link_node_list_err(n) ==
    /\ lk.pc = "idle"
    /\ n \in StoredNodes
    /\ lk' = [LkIdle EXCEPT !.pc = "err", !.new_node = Some(n)]
    /\ hist' = hist_fail(hist_start(hist, n), n.id, 0)
    /\ UNCHANGED <<environ, nodes, edges, used_ids, probe, embed_vars>>

InLoop == lk.pc = "loop" /\ lk.i <= Len(lk.all_nodes)

CurrentEdge == link_edge(unwrap(lk.new_node), lk.all_nodes[lk.i].node, environ)

\* The loop body reaches `continue`: the node itself, or a Discard.
auto_link_node_continue ==
    /\ InLoop
    /\ CurrentEdge = None
    /\ lk' = [lk EXCEPT !.i = @ + 1]
    /\ UNCHANGED <<environ, nodes, edges, used_ids, hist, probe, embed_vars>>

\* db.upsert_edge(new_edge).await? succeeds; the counters are updated.
auto_link_node_upsert ==
    /\ InLoop
    /\ \E new_edge \in Range(CurrentEdge) :
          /\ edges' = upsert_edge(edges, new_edge)
          /\ lk' = [lk EXCEPT !.i = @ + 1,
                              !.accepted = count_accepted(@, new_edge.status),
                              !.suggested = count_suggested(@, new_edge.status),
                              !.written = Append(@, new_edge)]
    /\ UNCHANGED <<environ, nodes, used_ids, hist, probe, embed_vars>>

\* The INSERT of db.upsert_edge fails: `?` returns the error.
auto_link_node_insert_err ==
    /\ InLoop
    /\ CurrentEdge # None
    /\ lk' = [lk EXCEPT !.pc = "err"]
    /\ hist' = hist_fail(hist, unwrap(lk.new_node).id, Len(lk.written))
    /\ UNCHANGED <<environ, nodes, edges, used_ids, probe, embed_vars>>

\* The INSERT is done and the SELECT that follows it in db.upsert_edge fails.
auto_link_node_fetch_err ==
    /\ InLoop
    /\ \E new_edge \in Range(CurrentEdge) :
          /\ edges' = upsert_edge(edges, new_edge)
          /\ lk' = [lk EXCEPT !.pc = "err", !.written = Append(@, new_edge)]
    /\ hist' = hist_fail(hist, unwrap(lk.new_node).id, Len(lk.written) + 1)
    /\ UNCHANGED <<environ, nodes, used_ids, probe, embed_vars>>

\* Ok(LinkingResult { accepted, suggested })
auto_link_node_ok ==
    /\ lk.pc = "loop"
    /\ lk.i > Len(lk.all_nodes)
    /\ lk' = [lk EXCEPT !.pc = "ok"]
    /\ UNCHANGED <<environ, nodes, edges, used_ids, hist, probe, embed_vars>>

\* The caller takes the result.
auto_link_node_return ==
    /\ lk.pc \in {"ok", "err"}
    /\ lk' = LkIdle
    /\ hist' = IF lk.pc = "ok" /\ hist.node = Some(unwrap(lk.new_node).id)
               THEN [hist EXCEPT !.prev = Some([accepted |-> lk.accepted,
                                                suggested |-> lk.suggested])]
               ELSE hist
    /\ UNCHANGED <<environ, nodes, edges, used_ids, probe, embed_vars>>

(***************************************************************************)
(* Specification of storage and auto-linking                               *)
(***************************************************************************)
\* FOREST_AUTO_ACCEPT / FOREST_SUGGESTION_THRESHOLD as the process finds them.
\* Overrides are positive, so that unrelated notes classify as Discard.
EnvDefault == [FOREST_AUTO_ACCEPT |-> EnvUnset, FOREST_SUGGESTION_THRESHOLD |-> EnvUnset]
EnvLow ==
    [FOREST_AUTO_ACCEPT |-> EnvNum((3 * ScoreUnit) \div 10),
     FOREST_SUGGESTION_THRESHOLD |-> EnvNum((2 * ScoreUnit) \div 10)]
EnvConfigs == {EnvDefault, EnvLow}

PoolIds == {n.id : n \in NodePool}

(***************************************************************************)
(* Calls of the pure scoring functions (core/scoring.rs)                   *)
(***************************************************************************)
ProbeNone == [fn |-> "none", args |-> <<>>, result |-> "none"]

\* Values an override of a threshold takes, besides being unset or unparsable.
AutoAcceptOverrides == {(3 * ScoreUnit) \div 10, (6 * ScoreUnit) \div 10}
SuggestionOverrides == {(2 * ScoreUnit) \div 10, (45 * ScoreUnit) \div 100}

ProbeEnvs ==
    [FOREST_AUTO_ACCEPT : {EnvUnset, EnvInvalid} \cup {EnvNum(n) : n \in AutoAcceptOverrides},
     FOREST_SUGGESTION_THRESHOLD :
         {EnvUnset, EnvInvalid} \cup {EnvNum(n) : n \in SuggestionOverrides}]

\* Every threshold in use, and the scores next to it on both sides.
ProbeThresholds ==
    {DEFAULT_AUTO_ACCEPT, DEFAULT_SUGGESTION} \cup AutoAcceptOverrides \cup SuggestionOverrides

ProbeScores ==
    {0, ScoreUnit} \cup UNION {{th - 1, th, th + 1} : th \in ProbeThresholds}

probe_classify_score(score) ==
    /\ probe' = [fn |-> "classify_score", args |-> <<score>>,
                 result |-> classify_score(score, environ)]
    /\ UNCHANGED <<link_vars, embed_vars>>

probe_compute_score(a, b) ==
    /\ probe' = [fn |-> "compute_score", args |-> <<a, b>>, result |-> compute_score_of(a, b)]
    /\ UNCHANGED <<link_vars, embed_vars>>

(***************************************************************************)
(* Embedding service (core/embeddings.rs)                                  *)
(*                                                                         *)
(* local is the Mutex<Option<LocalEmbedder>>: the thread holding the lock  *)
(* and the guarded value, None or Some(model instance).  Each thread runs  *)
(* embed_text calls one after the other; pc is its position in the call.   *)
(***************************************************************************)
NumThreads == 2
MaxCalls == 2
MaxInitFail == 2

Threads == 1..NumThreads

Providers == {"Local", "OpenAI", "Mock", "None"}

(***************************************************************************)
(* Configuration of the embedding service (core/embeddings.rs, lib.rs)     *)
(***************************************************************************)
\* An environment variable as the OS holds it: unset, set to bytes that are not
\* valid Unicode, or set to text.
OsUnset == [kind |-> "unset", text |-> <<>>]
OsNotUnicode == [kind |-> "not_unicode", text |-> <<>>]
OsText(s) == [kind |-> "text", text |-> s]

\* std::env::var(name): Ok(text), or Err when unset or not Unicode
env_var(v) == IF v.kind = "text" THEN Ok(v.text) ELSE Err("VarError")

\* The string literals of from_env, and values a selector or a key may hold.
Lit ==
    [local |-> <<"l", "o", "c", "a", "l">>,
     openai |-> <<"o", "p", "e", "n", "a", "i">>,
     mock |-> <<"m", "o", "c", "k">>,
     none |-> <<"n", "o", "n", "e">>,
     transformers |-> <<"t", "r", "a", "n", "s", "f", "o", "r", "m", "e", "r", "s">>,
     xenova |-> <<"x", "e", "n", "o", "v", "a">>,
     off |-> <<"o", "f", "f">>,
     disabled |-> <<"d", "i", "s", "a", "b", "l", "e", "d">>,
     remote |-> <<"r", "e", "m", "o", "t", "e">>,
     bogus |-> <<"b", "o", "g", "u", "s">>,
     key |-> <<"s", "k", "-", "1">>]

\* EmbeddingProvider::from_env without to_lowercase()
from_env_case_sensitive(env) ==
    LET v == env_var(env.FOREST_EMBED_PROVIDER)
        raw == IF v.ok THEN v.val ELSE Lit.local
    IN CASE raw = Lit.openai -> "OpenAI"
         [] raw \in {Lit.local, Lit.transformers, Lit.xenova} -> "Local"
         [] raw \in {Lit.none, Lit.off, Lit.disabled} -> "None"
         [] OTHER -> "Mock"

from_env(env) ==
    LET v == env_var(env.FOREST_EMBED_PROVIDER)
        raw == to_lowercase(IF v.ok THEN v.val ELSE Lit.local)
    IN CASE raw = Lit.openai -> "OpenAI"
         [] raw \in {Lit.local, Lit.transformers, Lit.xenova} -> "Local"
         [] raw \in {Lit.none, Lit.off, Lit.disabled} -> "None"
         [] OTHER -> "Mock"

probe_from_env ==
    /\ probe' = [fn |-> "from_env", args |-> <<embed_env>>, result |-> from_env(embed_env)]
    /\ UNCHANGED <<link_vars, embed_vars>>

\* OpenAIEmbedder::new(): the embedder holds the key, or Err when
\* std::env::var("OPENAI_API_KEY") is Err
OpenAIEmbedder_new(env) ==
    LET k == env_var(env.OPENAI_API_KEY)
    IN IF k.ok THEN Ok([api_key |-> k.val]) ELSE Err("OPENAI_API_KEY is required")

EmbeddingService_new(env) ==
    LET p == from_env(env)
        e == OpenAIEmbedder_new(env)
    IN IF p = "OpenAI"
       THEN IF e.ok THEN Ok([provider |-> p, openai |-> Some(e.val)]) ELSE Err(e.val)
       ELSE Ok([provider |-> p, openai |-> None])

CtorNone == [env |-> None, first_new |-> "none"]

\* The first access to the lazy_static EMBEDDING_SERVICE: EmbeddingService::new(),
\* and when that is Err, set_var("FOREST_EMBED_PROVIDER", "mock") and
\* EmbeddingService::new().expect(..).
EMBEDDING_SERVICE_init ==
    /\ provider = "Uninit"
    /\ LET first == EmbeddingService_new(embed_env)
           mock_env == [embed_env EXCEPT !.FOREST_EMBED_PROVIDER = OsText(Lit.mock)]
           second == EmbeddingService_new(mock_env)
       IN IF first.ok
          THEN /\ provider' = first.val.provider
               /\ openai' = first.val.openai
               /\ embed_env' = embed_env
               /\ ctor' = [env |-> Some(embed_env), first_new |-> "ok"]
          ELSE /\ provider' = IF second.ok THEN second.val.provider ELSE "Panicked"
               /\ openai' = IF second.ok THEN second.val.openai ELSE None
               /\ embed_env' = mock_env
               /\ ctor' = [env |-> Some(embed_env), first_new |-> "err"]
    /\ UNCHANGED <<link_vars, probe, search, local, threads, inits>>

(***************************************************************************)
(* Calls of the embedding service                                          *)
(***************************************************************************)

\* Texts passed to embed_text: empty, blank, and with content.
Texts == {<<>>, <<" ", "\n">>, <<"r", "u", "s", "t">>}

\* Titles and bodies passed to embed_node, as <<title, body>>.
NodeTexts ==
    ({<<>>, <<" ">>} \X {<<>>, <<"\t", "\n">>}) \cup {<<<<"r", "u", "s", "t">>, <<>>>>}

\* args: the arguments of the call in flight; net: requests it has sent to the API
ThreadIdle ==
    [pc |-> "idle", calls |-> 0, attempts |-> 0, used |-> None, result |-> "none",
     args |-> <<>>, net |-> 0]

LocalNew == [holder |-> None, value |-> None]

InitsNone == [ok |-> 0, failed |-> 0, used |-> {}]

\* Mutex::lock returns once no other thread holds the guard.
can_lock_always(m) == TRUE

can_lock(m) == m.holder = None

\* The guarded value when LocalEmbedder::new() returns Err: `?` leaves it as it was.
value_after_failed_init_cached(v) == Some(0)

value_after_failed_init(v) == v

\* text.is_empty() without trim()
is_empty_untrimmed(text) == text = <<>>

\* text.trim().is_empty()
trim_is_empty(text) == \A i \in DOMAIN text : is_whitespace(text[i])

\* embed_text up to the provider's branch, in the frame th
embed_text_enter(th, text) ==
    IF trim_is_empty(text) \/ provider = "None"
    THEN [th EXCEPT !.pc = "done", !.result = "ok_none"]
    ELSE IF provider = "Mock" THEN [th EXCEPT !.pc = "done", !.result = "ok_some"]
    ELSE IF provider = "OpenAI" THEN [th EXCEPT !.pc = "openai"]
    ELSE [th EXCEPT !.pc = "lock1"]

embed_text(t, text) ==
    /\ provider \in Providers
    /\ threads[t].pc = "idle"
    /\ threads[t].calls < MaxCalls
    /\ threads' = [threads EXCEPT ![t] = embed_text_enter([@ EXCEPT !.args = <<text>>], text)]
    /\ UNCHANGED <<link_vars, probe, search, service_vars, local, inits>>

\* format!("{}\n{}", title, body)
format_node_text(title, body) == title \o <<"\n">> \o body

\* embed_node: embed_text of the formatted text
embed_node(t, title, body) ==
    /\ provider \in Providers
    /\ threads[t].pc = "idle"
    /\ threads[t].calls < MaxCalls
    /\ threads' = [threads EXCEPT ![t] =
          embed_text_enter([@ EXCEPT !.args = <<title, body>>], format_node_text(title, body))]
    /\ UNCHANGED <<link_vars, probe, search, service_vars, local, inits>>

\* embed_openai: Err when self.openai is None; otherwise one request, which
\* succeeds or fails
embed_openai(t, ok) ==
    /\ threads[t].pc = "openai"
    /\ threads' = [threads EXCEPT ![t] =
          IF openai = None
          THEN [@ EXCEPT !.pc = "done", !.result = "err_not_initialized"]
          ELSE [@ EXCEPT !.pc = "done", !.net = @ + 1,
                         !.result = IF ok THEN "ok_some" ELSE "err_embed"]]
    /\ UNCHANGED <<link_vars, probe, search, service_vars, local, inits>>

\* embed_local: let mut guard = self.local.lock().unwrap()
embed_local_lock1(t) ==
    /\ threads[t].pc = "lock1"
    /\ can_lock(local)
    /\ local' = [local EXCEPT !.holder = Some(t)]
    /\ threads' = [threads EXCEPT ![t] = [@ EXCEPT !.pc = "init"]]
    /\ UNCHANGED <<link_vars, probe, search, service_vars, inits>>

\* guard.is_none() is false; the block ends and the guard is dropped
embed_local_init_skip(t) ==
    /\ threads[t].pc = "init"
    /\ local.value # None
    /\ local' = [local EXCEPT !.holder = None]
    /\ threads' = [threads EXCEPT ![t] = [@ EXCEPT !.pc = "lock2"]]
    /\ UNCHANGED <<link_vars, probe, search, service_vars, inits>>

\* guard.is_none() is true: LocalEmbedder::new() is called with the guard held
embed_local_init_begin(t) ==
    /\ threads[t].pc = "init"
    /\ local.value = None
    /\ threads' = [threads EXCEPT ![t] = [@ EXCEPT !.pc = "new", !.attempts = @ + 1]]
    /\ UNCHANGED <<link_vars, probe, search, service_vars, local, inits>>

\* LocalEmbedder::new() returns Ok: *guard = Some(embedder); the guard is dropped
embed_local_init_ok(t) ==
    /\ threads[t].pc = "new"
    /\ local' = [holder |-> None, value |-> Some(inits.ok + 1)]
    /\ inits' = [inits EXCEPT !.ok = @ + 1]
    /\ threads' = [threads EXCEPT ![t] = [@ EXCEPT !.pc = "lock2"]]
    /\ UNCHANGED <<link_vars, probe, search, service_vars>>

\* LocalEmbedder::new() returns Err: `?` returns it and the guard is dropped
embed_local_init_err(t) ==
    /\ threads[t].pc = "new"
    /\ inits.failed < MaxInitFail
    /\ local' = [holder |-> None, value |-> value_after_failed_init(local.value)]
    /\ inits' = [inits EXCEPT !.failed = @ + 1]
    /\ threads' = [threads EXCEPT ![t] = [@ EXCEPT !.pc = "done", !.result = "err_init"]]
    /\ UNCHANGED <<link_vars, probe, search, service_vars>>

\* let guard = self.local.lock().unwrap()
embed_local_lock2(t) ==
    /\ threads[t].pc = "lock2"
    /\ can_lock(local)
    /\ local' = [local EXCEPT !.holder = Some(t)]
    /\ threads' = [threads EXCEPT ![t] = [@ EXCEPT !.pc = "embed"]]
    /\ UNCHANGED <<link_vars, probe, search, service_vars, inits>>

\* guard.as_ref().unwrap() and embedder.embed(text); the guard is dropped on return.
\* unwrap() on None panics.
embed_local_embed(t, ok) ==
    /\ threads[t].pc = "embed"
    /\ local' = [local EXCEPT !.holder = None]
    /\ IF local.value = None
       THEN /\ threads' = [threads EXCEPT ![t] = [@ EXCEPT !.pc = "panic"]]
            /\ UNCHANGED inits
       ELSE /\ threads' = [threads EXCEPT ![t] =
                  [@ EXCEPT !.pc = "done", !.used = local.value,
                            !.result = IF ok THEN "ok_some" ELSE "err_embed"]]
            /\ inits' = [inits EXCEPT !.used = @ \cup {unwrap(local.value)}]
    /\ UNCHANGED <<link_vars, probe, search, service_vars>>

\* The caller takes the result; the thread may call again.
embed_text_return(t) ==
    /\ threads[t].pc = "done"
    /\ threads' = [threads EXCEPT ![t] = [ThreadIdle EXCEPT !.calls = threads[t].calls + 1]]
    /\ UNCHANGED <<link_vars, probe, search, service_vars, local, inits>>

(***************************************************************************)
(* Semantic search (core/search.rs)                                        *)
(*                                                                         *)
(* search is the frame of the semantic_search call: its arguments, the     *)
(* query embedding, the rows list_nodes returned and the value returned;   *)
(* corpus is the table nodes as it was when the call listed it.            *)
(* The call embeds the query through EMBEDDING_SERVICE on MainThread.      *)
(***************************************************************************)
SEARCH_LIMIT == 10000

\* The largest `limit` a search is called with
MaxLimit == 2

MainThread == CHOOSE t \in Threads : \A u \in Threads : t <= u

SearchIdle ==
    [pc |-> "idle", query |-> <<>>, limit |-> 0, query_emb |-> None, corpus |-> <<>>,
     listed |-> None, result |-> None]

\* The notes searched: two of the same direction and one of another length.
\* (The notes of an import, UnrelatedNode, have no embedding.)
SearchNode(id, embedding) ==
    [id |-> id, title |-> <<>>, tags |-> <<>>, token_counts |-> <<>>, embedding |-> embedding]

SearchPool ==
    {SearchNode(<<"e","1">>, Some(<<3, 4>>)),
     SearchNode(<<"e","2">>, Some(<<6, 8>>)),
     SearchNode(<<"e","3">>, Some(<<4, 3, 0>>))}

\* for node in all_nodes: a SearchResult for every row that has an embedding
RECURSIVE scored_rows(_, _)
scored_rows(rows, query_emb) ==
    IF rows = <<>> THEN <<>>
    ELSE LET node == rows[1].node
         IN (IF is_some(node.embedding)
             THEN [i \in 1..rows[1].count |->
                      [node |-> node,
                       similarity |-> cosine_embeddings(Some(query_emb), node.embedding)]]
             ELSE <<>>) \o scored_rows(Tail(rows), query_emb)

\* An insertion that puts x behind the entries equal to it
insert_behind_equal(x, sorted) ==
    LET k == Cardinality({i \in DOMAIN sorted : sorted[i].similarity >= x.similarity})
    IN SubSeq(sorted, 1, k) \o <<x>> \o SubSeq(sorted, k + 1, Len(sorted))

\* x, which came before every entry of sorted, goes behind the entries greater
\* than it and before the entries equal to it
insert_stable(x, sorted) ==
    LET k == Cardinality({i \in DOMAIN sorted : sorted[i].similarity > x.similarity})
    IN SubSeq(sorted, 1, k) \o <<x>> \o SubSeq(sorted, k + 1, Len(sorted))

\* results.sort_by(|a, b| b.similarity.partial_cmp(&a.similarity)): stable, descending
RECURSIVE sort_by_similarity(_)
sort_by_similarity(results) ==
    IF results = <<>> THEN <<>>
    ELSE insert_stable(results[1], sort_by_similarity(Tail(results)))

\* results.into_iter().take(limit)
take_results(results, limit) == SubSeq(results, 1, Min(limit, Len(results)))

\* if query_embedding.is_none() { return Ok(vec![]) }, with the check left out
returns_empty_never(query_embedding) == FALSE

returns_empty(query_embedding) == query_embedding = None

\* semantic_search up to the await of EMBEDDING_SERVICE.embed_text(query)
semantic_search_embed(query, limit) ==
    /\ provider \in Providers
    /\ search.pc \in {"idle", "done"}
    /\ threads[MainThread].pc = "idle"
    /\ threads' = [threads EXCEPT ![MainThread] =
          embed_text_enter([@ EXCEPT !.args = <<query>>], query)]
    /\ search' = [SearchIdle EXCEPT !.pc = "embed", !.query = query, !.limit = limit]
    /\ UNCHANGED <<link_vars, probe, service_vars, local, inits>>

\* From the result of embed_text to the return: `?`, the None check, list_nodes
\* (which may fail), scoring, sort and take(limit).  v is the vector the provider
\* returned when it returned one.
semantic_search_rank(v, list_ok) ==
    /\ search.pc = "embed"
    /\ threads[MainThread].pc = "done"
    /\ LET r == threads[MainThread].result
           query_embedding == IF r = "ok_none" THEN None ELSE Some(v)
           all_nodes == list_nodes(nodes, [limit |-> SEARCH_LIMIT, offset |-> 0])
       IN search' =
            IF r \notin {"ok_none", "ok_some"}
            THEN [search EXCEPT !.pc = "done", !.result = Some(Err(r))]
            ELSE IF returns_empty(query_embedding)
            THEN [search EXCEPT !.pc = "done", !.result = Some(Ok(<<>>))]
            ELSE IF ~list_ok
            THEN [search EXCEPT !.pc = "done", !.query_emb = query_embedding,
                                !.result = Some(Err("list_nodes"))]
            ELSE [search EXCEPT !.pc = "done", !.query_emb = query_embedding,
                                !.corpus = nodes, !.listed = Some(all_nodes),
                                !.result = Some(Ok(take_results(
                                    sort_by_similarity(scored_rows(all_nodes, v)),
                                    search.limit)))]
    /\ threads' = [threads EXCEPT ![MainThread] = ThreadIdle]
    /\ UNCHANGED <<link_vars, probe, service_vars, local, inits>>

(***************************************************************************)
(* Titles, tags and the mock embedding (core/text.rs, core/embeddings.rs)  *)
(*                                                                         *)
(* A call that panics returns Err(message).                                *)
(***************************************************************************)
Repeat(c, n) == [i \in 1..n |-> c]

\* char::len_utf8
len_utf8(c) == IF c = "U+00A0" THEN 2 ELSE IF c = "U+3000" THEN 3 ELSE 1

\* str::len: the length in bytes
str_len(s) ==
    Len(s) + Cardinality({i \in DOMAIN s : len_utf8(s[i]) >= 2})
           + Cardinality({i \in DOMAIN s : len_utf8(s[i]) >= 3})

\* &s[..n]: panics when byte n is inside a character or behind the end
slice_to(s, n) ==
    LET boundary == {k \in 0..Len(s) : str_len(SubSeq(s, 1, k)) = n}
    IN IF boundary = {} THEN Err("byte index is not a char boundary")
       ELSE Ok(SubSeq(s, 1, CHOOSE k \in boundary : TRUE))

\* str::trim
trim(s) ==
    LET kept == {i \in DOMAIN s : ~is_whitespace(s[i])}
    IN IF kept = {} THEN <<>>
       ELSE SubSeq(s, CHOOSE i \in kept : \A j \in kept : i <= j,
                      CHOOSE i \in kept : \A j \in kept : i >= j)

\* str::lines: split at "\n" or "\r\n"; no line after a final line ending
lines(s) ==
    LET breaks == {i \in DOMAIN s : s[i] = "\n"}
        starts == {a \in {1} \cup {i + 1 : i \in breaks} : a <= Len(s)}
        start(k) == CHOOSE a \in starts : Cardinality({b \in starts : b < a}) = k - 1
        stop(a) == IF \E i \in breaks : i >= a
                   THEN CHOOSE i \in breaks : i >= a /\ \A j \in breaks : j >= a => i <= j
                   ELSE Len(s) + 1
        line(a) == IF stop(a) <= Len(s) /\ stop(a) - 1 >= a /\ s[stop(a) - 1] = "\r"
                   THEN SubSeq(s, a, stop(a) - 2)
                   ELSE SubSeq(s, a, stop(a) - 1)
    IN [k \in 1..Cardinality(starts) |-> line(start(k))]

pick_title(raw_body, provided_title) ==
    LET NonBlank(line) == trim(line) # <<>>
        found == SelectSeq(lines(raw_body), NonBlank)
        truncated == IF str_len(raw_body) > 80 THEN slice_to(raw_body, 80) ELSE Ok(raw_body)
    IN IF is_some(provided_title) /\ trim(unwrap(provided_title)) # <<>>
       THEN Ok(trim(unwrap(provided_title)))
       ELSE IF found # <<>> THEN Ok(trim(found[1]))
       ELSE IF ~truncated.ok THEN truncated
       ELSE IF trim(truncated.val) = <<>> THEN Ok(<<"U", "n", "t", "i", "t", "l", "e", "d", " ", "I", "d", "e", "a">>)
       ELSE Ok(trim(truncated.val))

\* Bodies and titles pick_title is called on
Bodies ==
    {<<>>, <<" ", " ", " ">>, <<"b", "o", "d", "y", " ", "t", "e", "x", "t">>, <<"F", "i", "r", "s", "t", " ", "L", "i", "n", "e", "\n", "S", "e", "c", "o", "n", "d", " ", "L", "i", "n", "e">>, <<"\n", "\n", "\n", "C", "o", "n", "t", "e", "n", "t">>,
     <<" ", " ", "\n", " ", "l", "e", "a", "d", " ", "\r", "\n", "n", "e", "x", "t">>, <<" ", "\t", "U+3000", "\n", "U+00A0">>,
     Repeat("a", 100), Repeat("a", 100) \o <<"\n", "S", "e", "c", "o", "n", "d">>,
     Repeat(" ", 81), Repeat(" ", 79) \o <<"\n", "\n">>,
     Repeat("U+00A0", 40), Repeat("U+00A0", 41),
     Repeat("U+3000", 26) \o <<" ", " ">>, Repeat("U+3000", 27),
     <<" ">> \o Repeat("U+3000", 27), Repeat("U+00A0", 39) \o Repeat("U+3000", 1) \o <<"\n">>}

Titles == {None, Some(<<>>), Some(<<" ", " ">>), Some(<<"M", "y", " ", "T", "i", "t", "l", "e">>), Some(<<" ", "M", "y", " ", "T", "i", "t", "l", "e", "\n">>)}

\* Tokens the stemmer is called on: the output alphabet of the tokenizer
Tokens ==
    {<<"i", "s">>, <<"c", "a", "t">>, <<"b", "u", "s">>, <<"i", "e", "s">>, <<"t", "i", "e", "s">>, <<"p", "i", "e", "s">>, <<"f", "l", "i", "e", "s">>, <<"s", "e", "r", "i", "e", "s">>,
     <<"p", "o", "l", "i", "c", "i", "e", "s">>, <<"c", "l", "a", "s", "s", "e", "s">>, <<"k", "i", "s", "s", "e", "s">>, <<"s", "s", "e", "s">>, <<"b", "r", "a", "n", "c", "h", "e", "s">>, <<"d", "i", "s", "h", "e", "s">>,
     <<"b", "o", "x", "e", "s">>, <<"a", "x", "e", "s">>, <<"b", "u", "z", "z", "e", "s">>, <<"s", "i", "n", "g">>, <<"b", "e", "i", "n", "g">>, <<"f", "l", "o", "w", "i", "n", "g">>, <<"m", "e", "e", "t", "i", "n", "g", "s">>,
     <<"u", "s", "e", "d">>, <<"a", "d", "d", "e", "d">>, <<"f", "l", "o", "w", "e", "d">>, <<"n", "e", "e", "d", "e", "d">>, <<"b", "e", "e", "s">>, <<"n", "o", "d", "e", "s">>, <<"c", "l", "a", "s", "s">>,
     <<"f", "o", "c", "u", "s">>, <<"b", "a", "s", "i", "s">>, <<"g", "l", "a", "s", "s">>, <<"r", "u", "s", "t">>, <<"d", "a", "t", "a", "b", "a", "s", "e">>, <<"2", "i", "e", "s">>, <<"x", "8", "6", "s">>}

(***************************************************************************)
(* Tag extraction (core/text.rs).  Scores are in hundredths.               *)
(***************************************************************************)
TAG_BLACKLIST ==
    {<<"i", "d", "e", "a">>, <<"p", "l", "a", "n">>, <<"p", "r", "o", "j", "e", "c", "t">>, <<"p", "r", "o", "j", "e", "c", "t", "s">>, <<"s", "y", "s", "t", "e", "m">>, <<"s", "y", "s", "t", "e", "m", "s">>}

GENERIC_TECH ==
    {<<"f", "l", "o", "w">>, <<"f", "l", "o", "w", "s">>, <<"s", "t", "r", "e", "a", "m">>, <<"s", "t", "r", "e", "a", "m", "s">>, <<"p", "i", "p", "e">>, <<"p", "i", "p", "e", "s">>,
     <<"b", "r", "a", "n", "c", "h">>, <<"b", "r", "a", "n", "c", "h", "e", "s">>, <<"t", "e", "r", "m", "i", "n", "a", "l">>, <<"t", "e", "r", "m", "i", "n", "a", "l", "s">>}

token_weight(token) == IF token \in GENERIC_TECH THEN 40 ELSE 100

tokenize_to_list(text) ==
    LET lowered == to_lowercase(text)
        normalized == [i \in DOMAIN lowered |->
                          IF \/ is_alphanumeric(lowered[i])
                             \/ lowered[i] = "#"
                             \/ is_whitespace(lowered[i])
                          THEN lowered[i] ELSE " "]
    IN filter_map_tokens(split_whitespace(normalized))

\* HashMap<token, count>
tokenize(text) ==
    LET tokens == tokenize_to_list(text)
    IN [t \in Range(tokens) |-> Cardinality({i \in DOMAIN tokens : tokens[i] = t})]

\* Regex #[a-zA-Z0-9_-]+ : the bodies of its matches, lower-cased, as a HashSet
hashtag_bodies(text) ==
    LET in_class(c) == is_alphanumeric(c) \/ c \in {"_", "-"}
        starts == {i \in DOMAIN text : text[i] = "#" /\ i < Len(text) /\ in_class(text[i + 1])}
        stop(i) == CHOOSE j \in i + 1..Len(text) :
                      /\ \A k \in i + 1..j : in_class(text[k])
                      /\ j = Len(text) \/ ~in_class(text[j + 1])
    IN {to_lowercase(SubSeq(text, i + 1, stop(i))) : i \in starts}

\* The orders in which a HashSet hands out its elements
into_iter(S) ==
    {v \in [1..Cardinality(S) -> S] : \A i, j \in 1..Cardinality(S) : v[i] = v[j] => i = j}

\* The greedy selection loop over the sorted candidates
RECURSIVE pick_tags(_, _, _, _, _)
pick_tags(combined, picked, bigrams_used, max_bigrams, limit) ==
    IF combined = <<>> THEN picked
    ELSE LET tag == combined[1].tag
             is_bigram == " " \in Range(tag)
         IN IF is_bigram /\ bigrams_used >= max_bigrams
            THEN pick_tags(Tail(combined), picked, bigrams_used, max_bigrams, limit)
            ELSE IF tag \in Range(picked)
            THEN pick_tags(Tail(combined), picked, bigrams_used, max_bigrams, limit)
            ELSE IF Len(picked) + 1 >= limit THEN Append(picked, tag)
            ELSE pick_tags(Tail(combined), Append(picked, tag),
                           IF is_bigram THEN bigrams_used + 1 ELSE bigrams_used,
                           max_bigrams, limit)

\* Unigram and bigram candidates with their scores
tag_candidates(text, token_counts) ==
    LET counts == IF is_some(token_counts) THEN unwrap(token_counts) ELSE tokenize(text)
        unigram_entries ==
            {[tag |-> t, score |-> counts[t] * token_weight(t)] :
                t \in {u \in DOMAIN counts : Len(u) >= 3 /\ u \notin TAG_BLACKLIST}}
        newlines == {i \in DOMAIN text : text[i] = "\n"}
        body_only == IF newlines = {} THEN text
                     ELSE SubSeq(text, 1 + CHOOSE i \in newlines : \A j \in newlines : i <= j,
                                 Len(text))
        seq == tokenize_to_list(body_only)
        at == {i \in 1..Len(seq) - 1 : Len(seq[i]) >= 3 /\ Len(seq[i + 1]) >= 3}
        bigram(i) == seq[i] \o <<" ">> \o seq[i + 1]
        bigram_entries ==
            {[tag |-> bigram(i),
              score |-> Cardinality({j \in at : bigram(j) = bigram(i)})
                        * ((175 * Max(token_weight(seq[i]), token_weight(seq[i + 1]))) \div 100)] :
                i \in at}
    IN unigram_entries \cup bigram_entries

\* combined.sort_by: score descending, then tag ascending
sort_candidates(entries) ==
    LET before(a, b) == IF a.score = b.score THEN str_lt(a.tag, b.tag) ELSE a.score > b.score
        at(k) == CHOOSE e \in entries : Cardinality({f \in entries : before(f, e)}) = k - 1
    IN [k \in 1..Cardinality(entries) |-> at(k)]

extract_tags_lexical(text, token_counts, limit) ==
    pick_tags(sort_candidates(tag_candidates(text, token_counts)), <<>>, 0,
              Max(1, limit \div 2), limit)

\* extract_tags that cuts the hashtags to `limit`
extract_tags_cut_to_limit(text, token_counts, limit) ==
    IF hashtag_bodies(text) # {}
    THEN {SubSeq(v, 1, Min(limit, Len(v))) : v \in into_iter(hashtag_bodies(text))}
    ELSE {extract_tags_lexical(text, token_counts, limit)}

\* The vectors extract_tags may return: the order of hashtags is that of a HashSet
extract_tags(text, token_counts, limit) ==
    IF hashtag_bodies(text) # {} THEN into_iter(hashtag_bodies(text))
    ELSE {extract_tags_lexical(text, token_counts, limit)}

MaxTagLimit == 3

\* Texts extract_tags is called on, each with the hashtags written in it
TagTexts ==
    {[text |-> <<"T", "h", "i", "s", " ", "i", "s", " ", "a", "b", "o", "u", "t", " ", "#", "r", "u", "s", "t", " ", "a", "n", "d", " ", "#", "t", "a", "u", "r", "i", " ", "d", "e", "v", "e", "l", "o", "p", "m", "e", "n", "t">>,
      hashtags |-> {<<"r", "u", "s", "t">>, <<"t", "a", "u", "r", "i">>}],
     [text |-> <<"#", "t", "a", "u", "r", "i", ",", " ", "t", "h", "e", "n", " ", "#", "r", "u", "s", "t", ".">>, hashtags |-> {<<"r", "u", "s", "t">>, <<"t", "a", "u", "r", "i">>}],
     [text |-> <<"#", "R", "u", "s", "t", " ", "#", "r", "u", "s", "t", " ", "#", "R", "U", "S", "T">>, hashtags |-> {<<"r", "u", "s", "t">>}],
     [text |-> <<"F", "l", "o", "w", " ", "c", "o", "n", "t", "r", "o", "l", "\n", "f", "l", "o", "w", "s", " ", "#", "d", "b", "-", "2", " ", "#", "a", "_", "b", " ", "#", "Z", "i", "g", " ", "#", "x", "9", " ", "d", "o", "n", "e">>,
      hashtags |-> {<<"d", "b", "-", "2">>, <<"a", "_", "b">>, <<"z", "i", "g">>, <<"x", "9">>}],
     [text |-> <<"g", "r", "a", "p", "h", " ", "d", "a", "t", "a", "b", "a", "s", "e", " ", "#", "g", "r", "a", "p", "h">>, hashtags |-> {<<"g", "r", "a", "p", "h">>}],
     [text |-> <<>>, hashtags |-> {}],
     [text |-> <<"#", " ", "r", "u", "s", "t", " ", "c", "#", " ", "n", "o", "t", "e", "s">>, hashtags |-> {}],
     [text |-> <<"r", "u", "s", "t", " ", "m", "e", "m", "o", "r", "y">>, hashtags |-> {}],
     [text |-> <<"R", "u", "s", "t", " ", "N", "o", "t", "e", "s", "\n", "r", "u", "s", "t", " ", "m", "e", "m", "o", "r", "y", " ", "s", "a", "f", "e", "t", "y", ".", " ", "R", "u", "s", "t", " ", "m", "e", "m", "o", "r", "y", " ", "s", "a", "f", "e", "t", "y", "!">>, hashtags |-> {}],
     [text |-> <<"G", "r", "a", "p", "h", " ", "d", "a", "t", "a", "b", "a", "s", "e", "\n", "g", "r", "a", "p", "h", " ", "d", "a", "t", "a", "b", "a", "s", "e", " ", "d", "e", "s", "i", "g", "n", " ", "g", "r", "a", "p", "h", " ", "d", "a", "t", "a", "b", "a", "s", "e">>, hashtags |-> {}],
     [text |-> <<"F", "l", "o", "w", " ", "c", "o", "n", "t", "r", "o", "l", "\n", "f", "l", "o", "w", " ", "s", "t", "r", "e", "a", "m", "s", " ", "t", "h", "r", "o", "u", "g", "h", " ", "p", "i", "p", "e", "s", " ", "f", "l", "o", "w", " ", "s", "t", "r", "e", "a", "m", "s">>, hashtags |-> {}],
     [text |-> <<"p", "r", "o", "j", "e", "c", "t", " ", "p", "l", "a", "n", " ", "s", "y", "s", "t", "e", "m", "s", " ", "i", "d", "e", "a">>, hashtags |-> {}]}

\* Token counts a caller passes: none, or those of the stored note
TagTokenCounts ==
    {None, Some((<<"r", "u", "s", "t">> :> 2) @@ (<<"g", "r", "a", "p", "h", " ", "d", "a", "t", "a", "b", "a", "s", "e">> :> 3) @@ (<<"m", "e", "m", "o", "r", "y">> :> 2))}

(***************************************************************************)
(* Mock embedding (core/embeddings.rs).  A u32 is the pair of its 16-bit   *)
(* halves <<high, low>>; vector entries are in units of 1/Scale.           *)
(***************************************************************************)
DIM == 384

\* byte as u32 of an ASCII letter or digit of a token
as_byte(c) ==
    IF c \in Range(LOWER) THEN 96 + CHOOSE i \in DOMAIN LOWER : LOWER[i] = c
    ELSE 47 + CHOOSE i \in DOMAIN DIGITS : DIGITS[i] = c

RECURSIVE bit_xor(_, _)
bit_xor(a, b) ==
    IF a = 0 /\ b = 0 THEN 0
    ELSE (((a % 2) + (b % 2)) % 2) + 2 * bit_xor(a \div 2, b \div 2)

\* hash ^= byte
xor_byte(hash, byte) ==
    <<hash[1], (hash[2] \div 256) * 256 + bit_xor(hash[2] % 256, byte)>>

\* hash.wrapping_mul(16777619), 16777619 = 2^24 + 403
wrapping_mul_prime(hash) ==
    LET low == hash[2] * 403
    IN <<(hash[1] * 403 + (low \div 65536) + (hash[2] % 256) * 256) % 65536, low % 65536>>

\* FNV-1: multiply, then xor
RECURSIVE fnv1a_mul_first(_, _)
fnv1a_mul_first(hash, bytes) ==
    IF bytes = <<>> THEN hash
    ELSE fnv1a_mul_first(xor_byte(wrapping_mul_prime(hash), bytes[1]), Tail(bytes))

\* the loop over token.bytes(), from hash = 2166136261 = 0x811C9DC5
RECURSIVE fnv1a(_, _)
fnv1a(hash, bytes) ==
    IF bytes = <<>> THEN hash
    ELSE fnv1a(wrapping_mul_prime(xor_byte(hash, bytes[1])), Tail(bytes))

\* (hash as usize) % DIM
bucket_of(hash) == ((hash[1] % DIM) * (65536 % DIM) + hash[2]) % DIM

embed_mock(text) ==
    LET lowered == to_lowercase(text)
        normalized == [i \in DOMAIN lowered |->
                          IF is_alphanumeric(lowered[i]) \/ is_whitespace(lowered[i])
                          THEN lowered[i] ELSE " "]
        tokens == split_whitespace(normalized)
        idx == [k \in DOMAIN tokens |->
                   bucket_of(fnv1a(<<33052, 40389>>,
                                   [j \in DOMAIN tokens[k] |-> as_byte(tokens[k][j])]))]
        vec == [i \in 1..DIM |-> Cardinality({k \in DOMAIN tokens : idx[k] = i - 1})]
        hit == {i \in 1..DIM : vec[i] > 0}
        norm_sq == SumOver(hit, [i \in hit |-> vec[i] * vec[i]])
    IN IF norm_sq > 0 THEN [i \in 1..DIM |-> sqrt_ratio(vec[i] * vec[i], norm_sq)]
       ELSE vec

\* Texts embed_mock is called on, each with the tokens written in it
MockTexts ==
    {[text |-> <<>>, tokens |-> <<>>],
     [text |-> <<" ", "\n", "\t">>, tokens |-> <<>>],
     [text |-> <<"a">>, tokens |-> <<<<"a">>>>],
     [text |-> <<"A", " ", "b">>, tokens |-> <<<<"a">>, <<"b">>>>],
     [text |-> <<"F", "o", "o", " ", "b", "a", "r", ",", " ", "f", "o", "o", "!">>, tokens |-> <<<<"f", "o", "o">>, <<"b", "a", "r">>, <<"f", "o", "o">>>>],
     [text |-> <<"f", "o", "o", "b", "a", "r">>, tokens |-> <<<<"f", "o", "o", "b", "a", "r">>>>],
     [text |-> <<"f", "o", "o", "-", "b", "a", "r">>, tokens |-> <<<<"f", "o", "o">>, <<"b", "a", "r">>>>],
     [text |-> <<"b", "a", "r", " ", "x", "9", " ", "B", "A", "R">>, tokens |-> <<<<"b", "a", "r">>, <<"x", "9">>, <<"b", "a", "r">>>>],
     [text |-> <<"r", "u", "s", "t", "\t", "t", "h", "e", " ", "q", "u", "i", "c", "k">>, tokens |-> <<<<"r", "u", "s", "t">>, <<"t", "h", "e">>, <<"q", "u", "i", "c", "k">>>>],
     [text |-> <<"T", "h", "e", " ", "q", "u", "i", "c", "k", " ", "#", "r", "u", "s", "t">>, tokens |-> <<<<"t", "h", "e">>, <<"q", "u", "i", "c", "k">>, <<"r", "u", "s", "t">>>>]}

\* The text functions are pure: their values on the inputs of the model, computed once.
TextMemo ==
    [pick_title |-> [raw_body \in Bodies, provided_title \in Titles |->
                        pick_title(raw_body, provided_title)],
     normalize_token |-> [token \in Tokens |-> normalize_token(token)],
     extract_tags |-> [text \in {t.text : t \in TagTexts}, token_counts \in TagTokenCounts,
                       limit \in 0..MaxTagLimit |->
                          extract_tags(text, token_counts, limit)],
     embed_mock |-> [text \in {t.text : t \in MockTexts} |-> embed_mock(text)]]

probe_pick_title(raw_body, provided_title) ==
    /\ probe' = [fn |-> "pick_title", args |-> <<raw_body, provided_title>>,
                 result |-> TextMemo.pick_title[raw_body, provided_title]]
    /\ UNCHANGED <<link_vars, embed_vars>>

probe_normalize_token(token) ==
    /\ probe' = [fn |-> "normalize_token", args |-> <<token>>,
                 result |-> TextMemo.normalize_token[token]]
    /\ UNCHANGED <<link_vars, embed_vars>>

probe_extract_tags(text, token_counts, limit) ==
    /\ \E tags \in TextMemo.extract_tags[text, token_counts, limit] :
          probe' = [fn |-> "extract_tags", args |-> <<text, token_counts, limit>>,
                    result |-> tags]
    /\ UNCHANGED <<link_vars, embed_vars>>

probe_embed_mock(text) ==
    /\ probe' = [fn |-> "embed_mock", args |-> <<text>>, result |-> TextMemo.embed_mock[text]]
    /\ UNCHANGED <<link_vars, embed_vars>>

(***************************************************************************)
(* delete_node statement by statement (db/nodes.rs).  Each statement is    *)
(* awaited on the pool, outside a transaction; other tasks run between     *)
(* them.  The frame of the call is kept in probe: its pc, the edge_count   *)
(* it read and, once it has returned, its result.  The tests of            *)
(* db/edges.rs insert edges between ids that name no row of nodes: the     *)
(* edges table does not reference nodes.                                   *)
(***************************************************************************)
DeleteFrame(id, pc, edge_count, result) ==
    [fn |-> "delete_node", args |-> <<id>>, pc |-> pc, edge_count |-> edge_count,
     result |-> result]

NoDeleteInFlight == probe.fn = "delete_node" => probe.pc = "done"

\* let existing = get_node_by_id(pool, id).await?
delete_node_get(id) ==
    /\ NoDeleteInFlight
    /\ id \in used_ids
    /\ probe' = IF id \in StoredIds THEN DeleteFrame(id, "count", 0, None)
                ELSE DeleteFrame(id, "done", 0, Some(Err("Node not found")))
    /\ UNCHANGED <<link_vars, embed_vars>>

\* SELECT COUNT(*) FROM edges WHERE source_id = ? OR target_id = ?
delete_node_count ==
    /\ probe.fn = "delete_node" /\ probe.pc = "count"
    /\ probe' = [probe EXCEPT !.pc = "edges",
                              !.edge_count = Cardinality(edges \ delete_edges_of(edges, probe.args[1]))]
    /\ UNCHANGED <<link_vars, embed_vars>>

\* DELETE FROM edges WHERE source_id = ? OR target_id = ?
delete_node_edges ==
    /\ probe.fn = "delete_node" /\ probe.pc = "edges"
    /\ edges' = delete_edges_of(edges, probe.args[1])
    /\ hist' = HistNone
    /\ probe' = [probe EXCEPT !.pc = "chunks"]
    /\ UNCHANGED <<environ, nodes, used_ids, lk, embed_vars>>

\* DELETE FROM document_chunks WHERE node_id = ? (the table is not modelled)
delete_node_chunks ==
    /\ probe.fn = "delete_node" /\ probe.pc = "chunks"
    /\ probe' = [probe EXCEPT !.pc = "node"]
    /\ UNCHANGED <<link_vars, embed_vars>>

\* DELETE FROM nodes WHERE id = ?, then Ok(DeleteNodeResult { .. })
delete_node_row ==
    /\ probe.fn = "delete_node" /\ probe.pc = "node"
    /\ nodes' = remove_node_row(nodes, probe.args[1])
    /\ hist' = HistNone
    /\ probe' = [probe EXCEPT !.pc = "done",
                              !.result = Some(Ok([node_removed |-> probe.args[1] \in StoredIds,
                                                  edges_removed |-> probe.edge_count]))]
    /\ UNCHANGED <<environ, edges, used_ids, lk, embed_vars>>

\* A statement fails: `?` returns the error, the statements before it stay done
delete_node_err ==
    /\ probe.fn = "delete_node" /\ probe.pc \in {"count", "edges", "chunks", "node"}
    /\ probe' = [probe EXCEPT !.pc = "done", !.result = Some(Err("database error"))]
    /\ UNCHANGED <<link_vars, embed_vars>>

(***************************************************************************)
(* Reviewing edges (db/edges.rs, commands.rs, cli/edges.rs).  The id of an *)
(* edge row is not modelled: a row is named by its pair, which the UNIQUE  *)
(* pair of the upsert ties to one id.                                      *)
(***************************************************************************)
\* The NewEdge values callers pass to db.upsert_edge
NewEdges ==
    [source_id : PoolIds, target_id : PoolIds,
     score : {(2 * ScoreUnit) \div 10, (3 * ScoreUnit) \div 10, (4 * ScoreUnit) \div 10},
     status : {"suggested", "accepted"}, edge_type : {"semantic", "manual"},
     metadata : {None}]

db_upsert_edge(edge) ==
    /\ edge.source_id # edge.target_id
    /\ edges' = upsert_edge(edges, edge)
    /\ UNCHANGED <<environ, nodes, used_ids, lk, hist, probe, embed_vars>>

\* promote_suggestions(min_score): the UPDATE and Ok(rows_affected)
db_promote_suggestions_count(min_score) ==
    /\ edges' = promote_suggestions(edges, min_score)
    /\ probe' = [fn |-> "promote_suggestions", args |-> <<min_score>>,
                 result |-> Cardinality(edges' \ edges)]
    /\ UNCHANGED <<environ, nodes, used_ids, lk, hist, embed_vars>>

\* DELETE FROM edges WHERE id = ? AND status = 'suggested'
delete_suggestion(E, pair) == E \ {e \in conflicting(E, pair) : e.status = "suggested"}

db_delete_suggestion(pair) ==
    /\ edges' = delete_suggestion(edges, pair)
    /\ edges' # edges
    /\ UNCHANGED <<environ, nodes, used_ids, lk, hist, probe, embed_vars>>

\* resolve_edge_id: a full UUID is taken as it is, a prefix is looked up among
\* the suggested edges
resolve_edge_id(E, pair, full) ==
    IF full THEN Ok(pair)
    ELSE IF {e \in conflicting(E, pair) : e.status = "suggested"} = {}
         THEN Err("No edge found matching")
         ELSE Ok(pair)

\* `edges reject <id>`: resolve_edge_id, get_edge_by_id, delete_edge
handle_reject_subcommand(pair, full) ==
    /\ resolve_edge_id(edges, pair, full).ok
    /\ \E edge \in conflicting(edges, resolve_edge_id(edges, pair, full).val) :
          edges' = delete_edge(edges, edge.source_id, edge.target_id)
    /\ UNCHANGED <<environ, nodes, used_ids, lk, hist, probe, embed_vars>>

(***************************************************************************)
(* Specifications                                                          *)
(***************************************************************************)
LinkInit ==
    /\ nodes = <<>>
    /\ edges = {}
    /\ used_ids = {}
    /\ lk = LkIdle
    /\ hist = HistNone

EmbedInit ==
    /\ local = LocalNew
    /\ threads = [t \in Threads |-> ThreadIdle]
    /\ inits = InitsNone
    /\ search = SearchIdle

\* Before the first access to EMBEDDING_SERVICE, under the environment env
ServiceUninit(env) ==
    /\ embed_env = env
    /\ ctor = CtorNone
    /\ provider = "Uninit"
    /\ openai = None

\* After the first access to EMBEDDING_SERVICE under the selector s with a key set
ServiceReady(s) ==
    /\ embed_env = [FOREST_EMBED_PROVIDER |-> OsText(s), OPENAI_API_KEY |-> OsText(Lit.key)]
    /\ ctor = [env |-> Some(embed_env), first_new |-> "ok"]
    /\ provider = EmbeddingService_new(embed_env).val.provider
    /\ openai = EmbeddingService_new(embed_env).val.openai

EmbedEnvUnset == [FOREST_EMBED_PROVIDER |-> OsUnset, OPENAI_API_KEY |-> OsUnset]

\* Storage and the auto-linker
Init ==
    /\ environ \in EnvConfigs
    /\ LinkInit
    /\ probe = ProbeNone
    /\ ServiceUninit(EmbedEnvUnset)
    /\ EmbedInit

Next ==
    \/ \E n \in NodePool : db_insert_node(n)
    \/ db_insert_unrelated
    \/ \E a, b \in PoolIds : handle_link(a, b)
    \/ \E a, b \in PoolIds : accept_edge(a, b)
    \/ \E a, b \in PoolIds : db_delete_edge(a, b)
    \/ \E m \in PromoteScores : db_promote_suggestions(m)
    \/ \E id \in PoolIds : db_delete_node(id)
    \/ \E n \in NodePool : auto_link_node_list(n)
    \/ \E n \in NodePool : auto_link_node_list_err(n)
    \/ auto_link_node_continue
    \/ auto_link_node_upsert
    \/ auto_link_node_insert_err
    \/ auto_link_node_fetch_err
    \/ auto_link_node_ok
    \/ auto_link_node_return

Spec == Init /\ [][Next]_vars

\* The pure scoring functions, called under every configuration of the thresholds
ScoreInit ==
    /\ environ \in ProbeEnvs
    /\ LinkInit
    /\ probe = ProbeNone
    /\ ServiceUninit(EmbedEnvUnset)
    /\ EmbedInit

ScoreNext ==
    \/ \E score \in ProbeScores : probe_classify_score(score)
    \/ \E a, b \in ScorePool : probe_compute_score(a, b)

SpecScore == ScoreInit /\ [][ScoreNext]_vars

\* The embedding service, called from NumThreads threads
EmbedSpecInit ==
    /\ environ = EnvDefault
    /\ LinkInit
    /\ probe = ProbeNone
    /\ \E s \in {Lit.local, Lit.openai, Lit.mock, Lit.none} : ServiceReady(s)
    /\ EmbedInit

EmbedNext ==
    \E t \in Threads :
        \/ \E text \in Texts : embed_text(t, text)
        \/ \E a \in NodeTexts : embed_node(t, a[1], a[2])
        \/ \E ok \in BOOLEAN : embed_openai(t, ok)
        \/ embed_local_lock1(t)
        \/ embed_local_init_skip(t)
        \/ embed_local_init_begin(t)
        \/ embed_local_init_ok(t)
        \/ embed_local_init_err(t)
        \/ embed_local_lock2(t)
        \/ \E ok \in BOOLEAN : embed_local_embed(t, ok)
        \/ embed_text_return(t)

SpecEmbed == EmbedSpecInit /\ [][EmbedNext]_vars


\* The first access to EMBEDDING_SERVICE under every configuration, and the calls
\* of one caller that follow it
EmbedEnvs ==
    LET texts == {Lit.local, <<"L","O","C","A","L">>, <<"L","o","c","a","l">>,
                  Lit.openai, <<"O","p","e","n","A","I">>, <<"O","P","E","N","A","I">>,
                  Lit.mock, <<"M","O","C","K">>,
                  Lit.none, <<"N","o","n","e">>, <<"N","O","N","E">>,
                  Lit.transformers, Lit.xenova, <<"X","e","n","o","v","a">>,
                  Lit.off, <<"O","F","F">>, Lit.disabled,
                  Lit.remote, Lit.bogus, <<>>, <<" ">> \o Lit.local, Lit.local \o <<" ">>,
                  Lit.local \o <<"1">>, <<"n","o">>}
    IN [FOREST_EMBED_PROVIDER : {OsUnset, OsNotUnicode} \cup {OsText(s) : s \in texts},
        OPENAI_API_KEY : {OsUnset, OsNotUnicode, OsText(<<>>), OsText(Lit.key)}]

ServiceInit ==
    /\ environ = EnvDefault
    /\ LinkInit
    /\ probe = ProbeNone
    /\ \E env \in EmbedEnvs : ServiceUninit(env)
    /\ EmbedInit

ServiceNext ==
    \/ probe_from_env
    \/ EMBEDDING_SERVICE_init
    \/ \E text \in Texts : embed_text(MainThread, text)
    \/ \E a \in NodeTexts : embed_node(MainThread, a[1], a[2])
    \/ \E ok \in BOOLEAN : embed_openai(MainThread, ok)
    \/ embed_local_lock1(MainThread)
    \/ embed_local_init_skip(MainThread)
    \/ embed_local_init_begin(MainThread)
    \/ embed_local_init_ok(MainThread)
    \/ embed_local_init_err(MainThread)
    \/ embed_local_lock2(MainThread)
    \/ \E ok \in BOOLEAN : embed_local_embed(MainThread, ok)
    \/ embed_text_return(MainThread)

SpecService == ServiceInit /\ [][ServiceNext]_vars

\* Semantic search over a store of notes, under each provider
SearchInit ==
    /\ environ = EnvDefault
    /\ LinkInit
    /\ probe = ProbeNone
    /\ \E s \in {Lit.local, Lit.openai, Lit.mock, Lit.none} : ServiceReady(s)
    /\ EmbedInit

SearchNext ==
    \/ \E n \in SearchPool : db_insert_node(n)
    \/ db_insert_unrelated
    \/ \E query \in {<<>>, <<" ", "\n">>, <<"r", "u", "s", "t">>}, limit \in 0..MaxLimit :
          semantic_search_embed(query, limit)
    \/ \E ok \in BOOLEAN : embed_openai(MainThread, ok)
    \/ embed_local_lock1(MainThread)
    \/ embed_local_init_skip(MainThread)
    \/ embed_local_init_begin(MainThread)
    \/ embed_local_init_ok(MainThread)
    \/ embed_local_init_err(MainThread)
    \/ embed_local_lock2(MainThread)
    \/ \E ok \in BOOLEAN : embed_local_embed(MainThread, ok)
    \/ \E v \in {<<3, 4>>, <<3, 4, 12>>}, list_ok \in BOOLEAN : semantic_search_rank(v, list_ok)
    \/ \E a \in {NodeA}, b \in {NodeD} : probe_compute_score(a, b)

SpecSearch == SearchInit /\ [][SearchNext]_vars

\* The pure text functions, called on bounded sets of inputs
TextInit ==
    /\ environ = EnvDefault
    /\ LinkInit
    /\ probe = ProbeNone
    /\ ServiceUninit(EmbedEnvUnset)
    /\ EmbedInit

TextNext ==
    \/ \E raw_body \in Bodies, provided_title \in Titles :
          probe_pick_title(raw_body, provided_title)
    \/ \E token \in Tokens : probe_normalize_token(token)
    \/ \E t \in TagTexts, token_counts \in TagTokenCounts, limit \in 0..MaxTagLimit :
          probe_extract_tags(t.text, token_counts, limit)
    \/ \E t \in MockTexts : probe_embed_mock(t.text)

SpecText == TextInit /\ [][TextNext]_vars

\* delete_node, statement by statement, next to captures and auto_link_node passes
DeleteInit ==
    /\ environ = EnvDefault
    /\ LinkInit
    /\ probe = ProbeNone
    /\ ServiceUninit(EmbedEnvUnset)
    /\ EmbedInit

DeleteNext ==
    \/ \E n \in NodePool : db_insert_node(n)
    \/ \E n \in NodePool : auto_link_node_list(n)
    \/ auto_link_node_continue
    \/ auto_link_node_upsert
    \/ auto_link_node_insert_err
    \/ auto_link_node_ok
    \/ auto_link_node_return
    \/ \E id \in PoolIds : delete_node_get(id)
    \/ delete_node_count
    \/ delete_node_edges
    \/ delete_node_chunks
    \/ delete_node_row
    \/ delete_node_err

SpecDelete == DeleteInit /\ [][DeleteNext]_vars

\* The edge table under upserts, promotion and the reject operations
EdgePairs == {normalize_edge_pair(p[1], p[2]) : p \in {q \in PoolIds \X PoolIds : q[1] # q[2]}}

EdgesInit ==
    /\ environ = EnvDefault
    /\ LinkInit
    /\ probe = ProbeNone
    /\ ServiceUninit(EmbedEnvUnset)
    /\ EmbedInit

EdgesNext ==
    \/ \E edge \in NewEdges : db_upsert_edge(edge)
    \/ \E min_score \in PromoteScores : db_promote_suggestions_count(min_score)
    \/ \E a, b \in PoolIds : db_delete_edge(a, b)
    \/ \E pair \in EdgePairs : db_delete_suggestion(pair)
    \/ \E pair \in EdgePairs, full \in BOOLEAN : handle_reject_subcommand(pair, full)

SpecEdges == EdgesInit /\ [][EdgesNext]_vars
(***************************************************************************)
(* Properties                                                              *)
(***************************************************************************)
RowsOf(E, a, b) == {e \in E : {e.source_id, e.target_id} = {a, b}}

OneEdgePerPair ==
    \A e1, e2 \in edges :
        {e1.source_id, e1.target_id} = {e2.source_id, e2.target_id} => e1 = e2

WrittenEdges == {lk.written[i] : i \in DOMAIN lk.written}

\* The node of the listing at the other end of an edge written for new_node.
OtherOf(w) ==
    LET new_id == unwrap(lk.new_node).id
        other_id == IF w.source_id = new_id THEN w.target_id ELSE w.source_id
    IN (CHOOSE r \in Range(lk.all_nodes) : r.node.id = other_id).node

ClassOf(new_node, other) == classify_score(compute_score_of(new_node, other).score, environ)

\* C1: after any sequence of upsert_edge, auto_link_node, delete_edge,
\* promote_suggestions and delete_node calls there is at most one stored edge per
\* unordered pair of node ids, and every edge auto_link_node has upserted is the one
\* stored row of its pair, holding the upserted score, status and type.
C1_OneEdgePerPair ==
    /\ OneEdgePerPair
    /\ \A w \in WrittenEdges : RowsOf(edges, w.source_id, w.target_id) = {w}

\* An upsert for a pair that already held an edge: the second run for a node.
C1_Witness == lk.written # <<>> /\ hist.prev # None

\* Ids of different lengths and cases, with equal ids and prefixes.
IdSamples == {<<"a">>, <<"a", "b">>, <<"A">>, <<"1", "0">>, <<"9">>, <<"1", "a">>}

ManualEdge(a, b) ==
    [source_id |-> a, target_id |-> b, score |-> ScoreUnit \div 2,
     status |-> "accepted", edge_type |-> "manual", metadata |-> None]

\* normalize_edge_pair on the sample ids, in both argument orders
NormalizeSymmetric ==
    \A x, y \in PoolIds \cup IdSamples :
        /\ normalize_edge_pair(x, y) = normalize_edge_pair(y, x)
        /\ ~str_lt(normalize_edge_pair(x, y)[2], normalize_edge_pair(x, y)[1])

\* C2: every stored edge has source_id <= target_id; upsert_edge(a, b) and
\* upsert_edge(b, a) leave the same storage; normalize_edge_pair(x, y) equals
\* normalize_edge_pair(y, x) and is in ascending order.
C2_NormalizedPairs ==
    /\ \A e \in edges : ~str_lt(e.target_id, e.source_id)
    /\ \A a, b \in PoolIds :
          upsert_edge(edges, ManualEdge(a, b)) = upsert_edge(edges, ManualEdge(b, a))
    /\ NormalizeSymmetric

\* auto_link_node for the node with the larger id has stored an edge.
C2_Witness ==
    /\ lk.new_node = Some(NodeA)
    /\ \E w \in WrittenEdges : w.source_id = NodeB.id /\ w.target_id = NodeA.id /\ w \in edges

\* C3: every edge auto_link_node upserts carries the score compute_score returns for
\* the pair, with status accepted when the score is at least the auto-accept threshold
\* and suggested when it is at least the suggestion threshold and below the
\* auto-accept threshold; so no edge is written for a Discard.
C3_NoDiscardEdge ==
    \A w \in WrittenEdges :
        LET s == compute_score_of(unwrap(lk.new_node), OtherOf(w)).score
        IN /\ w.score = s
           /\ \/ w.status = "accepted" /\ s >= get_auto_accept_threshold(environ)
              \/ /\ w.status = "suggested"
                 /\ s >= get_suggestion_threshold(environ)
                 /\ s < get_auto_accept_threshold(environ)

\* A finished run that wrote an accepted and a suggested edge and skipped a Discard.
C3_Witness ==
    /\ lk.pc = "ok"
    /\ \E w \in WrittenEdges : w.status = "accepted"
    /\ \E w \in WrittenEdges : w.status = "suggested"
    /\ \E r \in Range(lk.all_nodes) :
          /\ r.node.id # unwrap(lk.new_node).id
          /\ ClassOf(unwrap(lk.new_node), r.node) = "Discard"

\* C4: when auto_link_node(new) returns successfully, every stored node other than
\* new whose score with new is not a Discard has a semantic edge without metadata
\* with new, whatever the size of the corpus, and new has no edge to itself.
C4_EveryRelatedNodeLinked ==
    lk.pc = "ok" =>
        LET new_node == unwrap(lk.new_node)
        IN /\ \A other \in StoredNodes :
                (other.id # new_node.id /\ ClassOf(new_node, other) # "Discard")
                => \E e \in RowsOf(edges, new_node.id, other.id) :
                      e.edge_type = "semantic" /\ e.metadata = None
           /\ RowsOf(edges, new_node.id, new_node.id) = {}

\* C5: a run of auto_link_node that follows a successful run for the same node, with
\* no other write in between, ends with the edge set the first run ended with, no
\* pair holding two edges, and returns the counts the first run returned.
C5_RerunSameEdges ==
    (lk.pc = "ok" /\ hist.node = Some(unwrap(lk.new_node).id)) =>
        /\ edges = hist.expect
        /\ OneEdgePerPair
        /\ hist.prev # None =>
              /\ lk.accepted = unwrap(hist.prev).accepted
              /\ lk.suggested = unwrap(hist.prev).suggested

\* The second of two successful runs, each writing two edges.
C5_Witness ==
    /\ lk.pc = "ok"
    /\ hist.prev # None
    /\ hist.failed = None
    /\ Len(lk.written) = 2

\* C6: when a storage call fails during auto_link_node the call returns the error
\* and scores no further node, the edges it had upserted stay stored, and a later
\* successful run for the same node ends with the edge set of a run without failure.
C6_FailureThenRerun ==
    /\ [](lk.pc = "err" => WrittenEdges \subseteq edges)
    /\ [][lk.pc = "err" => (lk' = LkIdle /\ edges' = edges)]_vars
    /\ []((lk.pc = "ok" /\ hist.failed # None) => edges = hist.expect)

\* A run failed after the first of two upserts, and the next run succeeded.
C6_Witness ==
    /\ lk.pc = "ok"
    /\ hist.failed = Some(1)
    /\ Len(lk.written) = 2

RECURSIVE CountClass(_, _, _)
CountClass(rows, new_node, class) ==
    IF rows = <<>> THEN 0
    ELSE (IF rows[1].node.id # new_node.id /\ ClassOf(new_node, rows[1].node) = class
          THEN rows[1].count ELSE 0)
         + CountClass(Tail(rows), new_node, class)

\* C7: auto_link_node returns as accepted the number of other nodes it scored that
\* classify as Accepted and as suggested the number that classify as Suggested; the
\* two add up to the number of edges the call upserted.
C7_Counts ==
    lk.pc = "ok" =>
        /\ lk.accepted = CountClass(lk.all_nodes, unwrap(lk.new_node), "Accepted")
        /\ lk.suggested = CountClass(lk.all_nodes, unwrap(lk.new_node), "Suggested")
        /\ lk.accepted + lk.suggested = Len(lk.written)

\* A run that returns one accepted and one suggested edge.
C7_Witness == lk.pc = "ok" /\ lk.accepted = 1 /\ lk.suggested = 1

\* The threshold in force: the override when it parses as a number, else the default.
ThresholdOf(v, default) == IF v.kind = "num" THEN v.num ELSE default

\* C8: classify_score(s) is Accepted exactly when s is at least the auto-accept
\* threshold, Suggested exactly when s is at least the suggestion threshold and below
\* the auto-accept threshold, and Discard otherwise; the thresholds are 0.5 and 0.25
\* unless a valid override is configured.
C8_ClassifyThresholds ==
    probe.fn = "classify_score" =>
        LET s == probe.args[1]
            auto == ThresholdOf(environ.FOREST_AUTO_ACCEPT, ScoreUnit \div 2)
            sugg == ThresholdOf(environ.FOREST_SUGGESTION_THRESHOLD, ScoreUnit \div 4)
        IN /\ probe.result = "Accepted" <=> s >= auto
           /\ probe.result = "Suggested" <=> (s >= sugg /\ s < auto)
           /\ probe.result = "Discard" <=> (s < sugg /\ s < auto)

\* A score equal to the default suggestion threshold, with an unparsable override.
C8_Witness ==
    /\ probe.fn = "classify_score"
    /\ environ.FOREST_SUGGESTION_THRESHOLD = EnvInvalid
    /\ environ.FOREST_AUTO_ACCEPT = EnvUnset
    /\ probe.args[1] = ScoreUnit \div 4
    /\ probe.result = "Suggested"

\* C9: with the Local provider, under any interleaving of embed_text calls, the local
\* model is initialised successfully at most once, no thread reaches the embed step
\* with the model unset, and every embedding is made with the one instance.
C9_InitOnce ==
    provider = "Local" =>
        /\ inits.ok <= 1
        /\ \A t \in Threads :
              /\ threads[t].pc # "panic"
              /\ threads[t].pc = "embed" => local.value # None
              /\ threads[t].used # None => threads[t].used = local.value
        /\ Cardinality(inits.used) <= 1

\* Every thread is in its first call, and each has embedded with the same instance.
C9_Witness ==
    /\ provider = "Local"
    /\ \A t \in Threads :
          /\ threads[t].calls = 0
          /\ threads[t].pc = "done"
          /\ threads[t].used = local.value
          /\ threads[t].used # None

\* C10: a call whose initialisation of the local model fails returns the error after
\* that one attempt and leaves the service uninitialised and unlocked; every call
\* that finds the service uninitialised attempts the initialisation.
C10_FailedInit ==
    [][\A t \in Threads :
          /\ (threads[t].pc = "new" /\ threads'[t].pc = "done") =>
                /\ threads'[t].result = "err_init"
                /\ threads'[t].attempts = 1
                /\ local' = LocalNew
          /\ (threads[t].pc = "init" /\ local.value = None /\ threads'[t].pc # "init") =>
                (threads'[t].pc = "new" /\ threads'[t].attempts = 1)]_vars

\* Initialisation failed twice and a later call initialised the model.
C10_Witness == inits.failed = 2 /\ inits.ok = 1


(***************************************************************************)
(* Properties of the embedding service's configuration and calls           *)
(***************************************************************************)
Blank(s) == Range(s) \subseteq {" ", "\n", "\t", "\r", "U+00A0", "U+3000"}

\* a and b are equal up to the case of their ASCII letters
SameIgnoringCase(a, b) ==
    /\ Len(a) = Len(b)
    /\ \A i \in DOMAIN a :
          \/ a[i] = b[i]
          \/ \E k \in DOMAIN UPPER : {a[i], b[i]} = {UPPER[k], LOWER[k]}

Selects(v, names) == v.kind = "text" /\ \E n \in names : SameIgnoringCase(v.text, n)

\* C11: a call of embed_text whose text is empty or whitespace-only, and a call of
\* embed_node whose title and body both are, has returned Ok(None) by its first
\* step under every provider: it never attempts to initialise the local model,
\* never uses it and never sends a request.
C11_BlankTextIsNone ==
    \A t \in Threads :
        (threads[t].pc # "idle" /\ \A i \in DOMAIN threads[t].args : Blank(threads[t].args[i]))
            => /\ threads[t].pc = "done"
               /\ threads[t].result = "ok_none"
               /\ threads[t].attempts = 0
               /\ threads[t].used = None
               /\ threads[t].net = 0

\* Under the Local provider with the model not loaded, one thread has called
\* embed_node with a blank title and body and another embed_text with blank text.
C11_Witness ==
    /\ provider = "Local"
    /\ local = LocalNew
    /\ inits = InitsNone
    /\ threads[1].pc = "done"
    /\ threads[1].args = << <<" ">>, <<"\t", "\n">> >>
    /\ threads[2].pc = "done"
    /\ threads[2].args = << <<" ", "\n">> >>

\* C12 as stated: local, openai, mock and none (in any case) select Local, Remote,
\* Mock and Disabled; an unset selector selects Local; every other non-empty value
\* selects Mock.
C12_SelectorMapping ==
    probe.fn = "from_env" =>
        LET v == probe.args[1].FOREST_EMBED_PROVIDER
        IN /\ v.kind = "unset" => probe.result = "Local"
           /\ Selects(v, {Lit.local}) => probe.result = "Local"
           /\ Selects(v, {Lit.openai}) => probe.result = "OpenAI"
           /\ Selects(v, {Lit.mock}) => probe.result = "Mock"
           /\ Selects(v, {Lit.none}) => probe.result = "None"
           /\ (/\ v.kind # "unset"
               /\ ~(v.kind = "text" /\ v.text = <<>>)
               /\ ~Selects(v, {Lit.local, Lit.openai, Lit.mock, Lit.none}))
                  => probe.result = "Mock"

\* C12, amended: compared without regard to case, local, transformers and xenova
\* select Local, openai selects Remote, none, off and disabled select Disabled; a
\* selector that is unset or not valid Unicode selects Local; every other value,
\* the empty string included, selects Mock, and building the service with it
\* succeeds.
C12_SelectorMappingWithAliases ==
    /\ probe.fn = "from_env" =>
          LET v == probe.args[1].FOREST_EMBED_PROVIDER
          IN probe.result =
                IF v.kind # "text" \/ Selects(v, {Lit.local, Lit.transformers, Lit.xenova})
                THEN "Local"
                ELSE IF Selects(v, {Lit.openai}) THEN "OpenAI"
                ELSE IF Selects(v, {Lit.none, Lit.off, Lit.disabled}) THEN "None"
                ELSE "Mock"
    /\ ctor.first_new # "none" =>
          LET v == unwrap(ctor.env).FOREST_EMBED_PROVIDER
          IN (/\ v.kind = "text"
              /\ ~Selects(v, {Lit.local, Lit.transformers, Lit.xenova, Lit.openai,
                              Lit.none, Lit.off, Lit.disabled}))
                 => (ctor.first_new = "ok" /\ provider = "Mock")

\* from_env was called with the selector OFF, and with it the service was built.
C12_Witness ==
    /\ probe.fn = "from_env"
    /\ probe.args[1].FOREST_EMBED_PROVIDER = OsText(<<"O","F","F">>)
    /\ probe.result = "None"
    /\ provider = "None"

\* C13: when the selector names the Remote provider and OPENAI_API_KEY is unset at
\* the first access to the service, building it fails and no embed call of the
\* program is served by a service afterwards.
C13_MissingKeyFailsConstruction ==
    (/\ ctor.first_new # "none"
     /\ Selects(unwrap(ctor.env).FOREST_EMBED_PROVIDER, {Lit.openai})
     /\ unwrap(ctor.env).OPENAI_API_KEY.kind = "unset")
        => /\ ctor.first_new = "err"
           /\ \A t \in Threads : threads[t].result # "ok_some"

(***************************************************************************)
(* Properties of semantic search                                           *)
(***************************************************************************)
SearchReturnedOk ==
    search.pc = "done" /\ unwrap(search.result).ok /\ search.query_emb # None

Results == unwrap(search.result).val

ResultIds == {Results[i].node.id : i \in DOMAIN Results}

\* The notes of the table rows that have an embedding
EmbeddedNodes(rows) ==
    {rows[i].node : i \in {j \in DOMAIN rows : is_some(rows[j].node.embedding)}}

RowIndex(rows, id) == CHOOSE i \in DOMAIN rows : rows[i].node.id = id

\* The cosine of two vectors of one length, 0 when either has magnitude 0
PlainCosine(a, b) ==
    LET idx == DOMAIN a
        dot == SumOver(idx, [i \in idx |-> a[i] * b[i]])
        mag_a == SumOver(idx, [i \in idx |-> a[i] * a[i]])
        mag_b == SumOver(idx, [i \in idx |-> b[i] * b[i]])
    IN IF mag_a = 0 \/ mag_b = 0 THEN 0 ELSE cosine_of(dot, mag_a, mag_b)

\* The cosine of a and b, each cut to the length of the shorter
CutCosine(a, b) ==
    LET d == Min(Len(a), Len(b)) IN PlainCosine(SubSeq(a, 1, d), SubSeq(b, 1, d))

\* C14: a semantic_search call made with the Disabled provider, or with an empty
\* or whitespace-only query, returns Ok with an empty list, and it has neither
\* listed nor scored any node.
C14_NoEmbeddingIsEmpty ==
    (search.pc = "done" /\ (provider = "None" \/ Blank(search.query)))
        => /\ search.result = Some(Ok(<<>>))
           /\ search.query_emb = None
           /\ search.listed = None

\* The Disabled provider was asked for "rust" with two notes stored.
C14_Witness ==
    /\ provider = "None"
    /\ search.pc = "done"
    /\ search.query = <<"r", "u", "s", "t">>
    /\ search.limit = 2
    /\ Cardinality(EmbeddedNodes(nodes)) = 2

\* C15: a search that returns a list returns at most `limit` entries, all of them
\* stored notes with an embedding, and a stored note with an embedding is left
\* out only if `limit` entries of at least its similarity are returned.
C15_TopOfAllEmbedded ==
    SearchReturnedOk =>
        /\ Len(Results) <= search.limit
        /\ \A i \in DOMAIN Results :
              Results[i].node \in EmbeddedNodes(search.corpus)
        /\ \A n \in EmbeddedNodes(search.corpus) :
              n.id \notin ResultIds =>
                 /\ Len(Results) = search.limit
                 /\ \A i \in DOMAIN Results :
                       Results[i].similarity >=
                           cosine_embeddings(search.query_emb, n.embedding)

\* C16: the returned list is in non-increasing order of similarity, and of two
\* entries with equal similarity the one list_nodes returned first comes first.
C16_SortedStable ==
    SearchReturnedOk =>
        \A i, j \in DOMAIN Results :
            i < j =>
               /\ Results[i].similarity >= Results[j].similarity
               /\ Results[i].similarity = Results[j].similarity =>
                     RowIndex(unwrap(search.listed), Results[i].node.id)
                         < RowIndex(unwrap(search.listed), Results[j].node.id)

\* Three notes were listed, the one of lower similarity first; the two returned
\* have equal similarity and the one captured later comes first.
C16_Witness ==
    /\ SearchReturnedOk
    /\ Len(unwrap(search.listed)) = 3
    /\ unwrap(search.listed)[1].node.id = <<"e","3">>
    /\ unwrap(search.listed)[2].node.id = <<"e","2">>
    /\ Len(Results) = 2
    /\ Results[1].node.id = <<"e","2">>
    /\ Results[2].node.id = <<"e","1">>
    /\ Results[1].similarity = Results[2].similarity

\* C20: the similarity of every entry semantic_search returns, and the embedding
\* similarity compute_score feeds into its formula, is the cosine of the two
\* vectors each cut to the length of the shorter; a search over vectors of
\* different lengths returns Ok.
C20_CutToShorter ==
    /\ SearchReturnedOk =>
          \A i \in DOMAIN Results :
              Results[i].similarity =
                  CutCosine(unwrap(search.query_emb), unwrap(Results[i].node.embedding))
    /\ (/\ probe.fn = "compute_score"
        /\ is_some(probe.args[1].embedding)
        /\ is_some(probe.args[2].embedding))
          => probe.result.components.embedding_similarity =
                powf_1_25(Max(CutCosine(unwrap(probe.args[1].embedding),
                                        unwrap(probe.args[2].embedding)), 0))

\* A query vector of length 3 was scored against a note's vector of length 2 and a
\* query of length 2 could be scored against a note's vector of length 3; and
\* compute_score was called on notes with vectors of lengths 3 and 2.
C20_Witness ==
    /\ SearchReturnedOk
    /\ Len(unwrap(search.query_emb)) = 3
    /\ \E i \in DOMAIN Results :
          Len(unwrap(Results[i].node.embedding)) = 2 /\ Results[i].similarity > 0
    /\ \E i \in DOMAIN Results : Len(unwrap(Results[i].node.embedding)) = 3
    /\ probe.fn = "compute_score"
    /\ Len(unwrap(probe.args[1].embedding)) = 3
    /\ Len(unwrap(probe.args[2].embedding)) = 2
    /\ probe.result.components.embedding_similarity > 0

(***************************************************************************)
(* Properties of compute_score                                             *)
(***************************************************************************)
SharedTags(a, b) == Range(a.tags) \cap Range(b.tags)

SharedTitleTokens(a, b) ==
    Range(tokens_from_title(a.title)) \cap Range(tokens_from_title(b.title))

\* a has a token count that is not 0
HasTokenCount(a) == \E k \in DOMAIN a.token_counts : a.token_counts[k] # 0

\* a has an embedding that is not a zero vector
HasMagnitude(a) ==
    is_some(a.embedding) /\ \E i \in DOMAIN unwrap(a.embedding) : unwrap(a.embedding)[i] # 0

C18_PenaltyAndWeights ==
    probe.fn = "compute_score" =>
        LET c == probe.result.components
        IN /\ c.penalty =
                 IF /\ SharedTags(probe.args[1], probe.args[2]) = {}
                    /\ SharedTitleTokens(probe.args[1], probe.args[2]) = {}
                 THEN (9 * Scale) \div 10 ELSE Scale
           /\ probe.result.score =
                 ((25 * c.token_similarity + 55 * c.embedding_similarity
                   + 15 * c.tag_overlap + 5 * c.title_similarity) * c.penalty) \div 100

\* Two notes with tags and titles that share no tag and no title token, and a
\* positive score.
C18_Witness ==
    /\ probe.fn = "compute_score"
    /\ probe.args = <<NodeA, NodeE>>
    /\ probe.result.components.penalty = (9 * Scale) \div 10
    /\ probe.result.score > 0

TitleCall == probe.fn = "pick_title"

\* The preference order of pick_title, "non-empty" read as the code's comments
\* use it (not blank after trimming), the 80 counted in characters.
PreferredTitle(raw_body, provided_title) ==
    LET nonblank == {i \in DOMAIN lines(raw_body) : ~Blank(lines(raw_body)[i])}
        first == CHOOSE i \in nonblank : \A j \in nonblank : i <= j
        head == SubSeq(raw_body, 1, Min(80, Len(raw_body)))
    IN IF is_some(provided_title) /\ ~Blank(unwrap(provided_title))
       THEN trim(unwrap(provided_title))
       ELSE IF nonblank # {} THEN trim(lines(raw_body)[first])
       ELSE IF ~Blank(head) THEN trim(head)
       ELSE <<"U", "n", "t", "i", "t", "l", "e", "d", " ", "I", "d", "e", "a">>

\* C21: pick_title returns the provided title when it is non-empty, else the
\* first non-empty line of the body, else the first 80 characters of the body
\* trimmed, else the fallback title when the body is empty or whitespace-only.
C21_TitlePreference ==
    TitleCall => probe.result = Ok(PreferredTitle(probe.args[1], probe.args[2]))

\* C30: pick_title never fails and its result is neither empty nor
\* whitespace-only, for every body and every optional provided title.
C30_TitleNeverBlank ==
    TitleCall => probe.result.ok /\ ~Blank(probe.result.val)

\* The rules of the stemmer in their order; the -ies rule applies to tokens
\* longer than ies_min characters.
StemRules(ies_min) ==
    <<[suffixes |-> {<<"i", "e", "s">>}, longer_than |-> ies_min, drop |-> 3, add |-> <<"y">>,
       except |-> {}],
      [suffixes |-> {<<"s", "s", "e", "s">>}, longer_than |-> 3, drop |-> 2, add |-> <<>>, except |-> {}],
      [suffixes |-> {<<"c", "h", "e", "s">>, <<"s", "h", "e", "s">>, <<"x", "e", "s">>, <<"z", "e", "s">>}, longer_than |-> 3, drop |-> 2,
       add |-> <<>>, except |-> {}],
      [suffixes |-> {<<"i", "n", "g">>}, longer_than |-> 5, drop |-> 3, add |-> <<>>, except |-> {}],
      [suffixes |-> {<<"e", "d">>}, longer_than |-> 4, drop |-> 2, add |-> <<>>, except |-> {}],
      [suffixes |-> {<<"s">>}, longer_than |-> 4, drop |-> 1, add |-> <<>>,
       except |-> {<<"s", "s">>, <<"u", "s">>, <<"i", "s">>}]>>

RuleMatches(token, rule) ==
    /\ Len(token) > rule.longer_than
    /\ \E suffix \in rule.suffixes : ends_with(token, suffix)
    /\ \A suffix \in rule.except : ~ends_with(token, suffix)

\* The first matching rule applied once; no rule applies to 3 characters or fewer
FirstRuleOnce(token, ies_min) ==
    LET rules == StemRules(ies_min)
        matching == {k \in DOMAIN rules : RuleMatches(token, rules[k])}
        k == CHOOSE i \in matching : \A j \in matching : i <= j
    IN IF Len(token) <= 3 \/ matching = {} THEN token
       ELSE drop_last(token, rules[k].drop) \o rules[k].add

TagCall == probe.fn = "extract_tags"

\* The hashtags written in a text of the model
WrittenHashtags(text) == (CHOOSE t \in TagTexts : t.text = text).hashtags

NoRepeat(v) == \A i, j \in DOMAIN v : v[i] = v[j] => i = j

CandidateScore(text, token_counts, tag) ==
    LET scores == {e.score : e \in {f \in tag_candidates(text, token_counts) : f.tag = tag}}
    IN CHOOSE s \in scores : \A r \in scores : s >= r

\* C24: for a text without hashtags extract_tags returns at most `limit` tags
\* for every limit >= 0, none repeated, at most max(1, limit/2) of them
\* bigrams, in descending score order with ties in ascending tag order.
C24_AtMostLimit ==
    TagCall /\ WrittenHashtags(probe.args[1]) = {} =>
        LET text == probe.args[1]
            token_counts == probe.args[2]
            limit == probe.args[3]
            tags == probe.result
        IN /\ Len(tags) <= limit
           /\ NoRepeat(tags)
           /\ Cardinality({i \in DOMAIN tags : " " \in Range(tags[i])}) <= Max(1, limit \div 2)
           /\ \A i \in DOMAIN tags : \A j \in DOMAIN tags : i < j =>
                 LET si == CandidateScore(text, token_counts, tags[i])
                     sj == CandidateScore(text, token_counts, tags[j])
                 IN si > sj \/ (si = sj /\ str_lt(tags[i], tags[j]))

(***************************************************************************)
(* Mock embedding                                                          *)
(***************************************************************************)
\* 32-bit FNV-1a hashes of the tokens, as <<hash \div 2^16, hash % 2^16>>
Fnv1a32 ==
    (<<"a">> :> <<58380, 10540>>) @@       \* 0xE40C292C
    (<<"b">> :> <<59148, 11749>>) @@       \* 0xE70C2DE5
    (<<"f", "o", "o">> :> <<43507, 32471>>) @@     \* 0xA9F37ED7
    (<<"b", "a", "r">> :> <<30391, 32026>>) @@     \* 0x76B77D1A
    (<<"f", "o", "o", "b", "a", "r">> :> <<49052, 63848>>) @@  \* 0xBF9CF968
    (<<"r", "u", "s", "t">> :> <<7487, 48615>>) @@     \* 0x1D3FBDE7
    (<<"t", "h", "e">> :> <<46094, 45596>>) @@     \* 0xB40EB21C
    (<<"q", "u", "i", "c", "k">> :> <<63289, 50108>>) @@   \* 0xF739C3BC
    (<<"x", "9">> :> <<6243, 6938>>)           \* 0x18631B1A

WrittenTokens(text) == (CHOOSE t \in MockTexts : t.text = text).tokens

\* The number of tokens of the text whose hash is congruent to i modulo 384
HashCount(text, i) ==
    LET tokens == WrittenTokens(text)
    IN Cardinality({k \in DOMAIN tokens :
                       ((Fnv1a32[tokens[k]][1] % 384) * 256 + Fnv1a32[tokens[k]][2]) % 384 = i})

\* C25: the mock embedding has 384 entries and entry i is the number of
\* tokens of the text whose FNV-1a hash is congruent to i modulo 384, divided
\* by the norm of these counts; it depends on the text only.
C25_MockIsHashCount ==
    probe.fn = "embed_mock" =>
        LET text == probe.args[1]
            hit == {i \in 0..383 : HashCount(text, i) > 0}
            norm_sq == SumOver(hit, [i \in hit |-> HashCount(text, i) * HashCount(text, i)])
        IN /\ Len(probe.result) = 384
           /\ \A i \in 0..383 :
                 probe.result[i + 1] =
                    IF norm_sq = 0 THEN 0
                    ELSE sqrt_ratio(HashCount(text, i) * HashCount(text, i), norm_sq)

\* "bar x9 BAR": three tokens in one bucket
C25_Witness ==
    /\ probe.fn = "embed_mock"
    /\ Len(WrittenTokens(probe.args[1])) = 3
    /\ probe.result[27] = Scale

(***************************************************************************)
(* Symmetry of the score                                                   *)
(***************************************************************************)
\* C26: compute_score(a, b) and compute_score(b, a) have the same score and
\* the same four components, for every pair of notes.
C26_ScoreSymmetric ==
    probe.fn = "compute_score" =>
        LET swapped == compute_score_of(probe.args[2], probe.args[1])
        IN /\ probe.result.score = swapped.score
           /\ probe.result.components = swapped.components

(***************************************************************************)
(* Deleting a note                                                         *)
(***************************************************************************)
DeleteReturnedOk ==
    /\ probe.fn = "delete_node"
    /\ probe.pc = "done"
    /\ probe.result # None
    /\ unwrap(probe.result).ok

\* C27: once delete_node(id) has returned Ok, no stored edge has id as its
\* source or target, whatever auto_link_node pass runs next to it.
C27_NoEdgeOfDeletedNode ==
    DeleteReturnedOk =>
        \A e \in edges : e.source_id # probe.args[1] /\ e.target_id # probe.args[1]

(***************************************************************************)
(* Reviewing edges                                                         *)
(***************************************************************************)
\* A step of one of the reject operations
RejectStep ==
    \/ \E a, b \in PoolIds : db_delete_edge(a, b)
    \/ \E pair \in EdgePairs : db_delete_suggestion(pair)
    \/ \E pair \in EdgePairs, full \in BOOLEAN : handle_reject_subcommand(pair, full)

\* C28: a reject operation removes only Suggested edges: every Accepted edge
\* is still stored after it.
C28_RejectKeepsAccepted ==
    [][RejectStep => \A e \in edges : e.status = "accepted" => e \in edges']_vars

SamePair(e, f) == e.source_id = f.source_id /\ e.target_id = f.target_id

\* The row of edges' that a row of edges has become
Promoted(e, min_score) ==
    [source_id |-> e.source_id, target_id |-> e.target_id, score |-> e.score,
     status |-> IF e.status = "suggested" /\ e.score >= min_score THEN "accepted"
                ELSE e.status,
     edge_type |-> e.edge_type, metadata |-> e.metadata]

\* C29: promote_suggestions(min_score) turns exactly the Suggested edges with
\* score >= min_score into Accepted edges, returns their number and changes
\* nothing else: no other status, no score, type or pair, no row added or removed.
C29_PromoteFrame ==
    [][\A min_score \in PromoteScores :
          db_promote_suggestions_count(min_score) =>
             /\ \A e \in edges : Promoted(e, min_score) \in edges'
             /\ \A f \in edges' : \E e \in edges : SamePair(e, f)
             /\ Cardinality(edges') = Cardinality(edges)
             /\ probe'.result =
                   Cardinality({e \in edges : e.status = "suggested" /\ e.score >= min_score})
      ]_vars

\* A call promoted an edge at the threshold and left a Suggested edge below it
C29_Witness ==
    /\ probe.fn = "promote_suggestions"
    /\ probe.result >= 1
    /\ \E e \in edges : e.status = "accepted" /\ e.score = probe.args[1]
    /\ \E e \in edges : e.status = "suggested" /\ e.score < probe.args[1]
====
